---- MODULE Spec2Model ----
(***************************************************************************)
(* keramik operator.                                                       *)
(*                                                                         *)
(* The components are modelled each with its own specification:            *)
(*   Spec     the simulation control loop                                  *)
(*            (operator/src/simulation/controller.rs);                     *)
(*   NetSpec  the network control loop, as the sequence of store calls     *)
(*            its test stub serves (operator/src/network/stub.rs);         *)
(*   RpcSpec  the IPFS RPC client (operator/src/network/ipfs_rpc.rs);      *)
(*   IdemSpec either loop, pass after pass over a resource nobody edits;   *)
(*   ResSpec  the resolution of variant specs into configs                 *)
(*            (operator/src/network/ceramic.rs);                           *)
(*   BldSpec  the resolution of one variant and the building of its peer   *)
(*            workload (operator/src/network/ceramic.rs);                  *)
(*   NameSpec the names and addresses of peers                             *)
(*            (operator/src/network/ceramic.rs, CeramicInfo);              *)
(*   JobSpec  the manager and worker jobs of successive simulation runs    *)
(*            (operator/src/simulation/manager.rs, controller.rs);         *)
(*   SeedSpec two passes over the same status-less simulation, each with   *)
(*            its injected random source (simulation/controller.rs);       *)
(*   IsoSpec  the passes of two simulations in two namespaces over one     *)
(*            store (simulation/controller.rs);                            *)
(*   LiveSpec the simulation control loop with its requeues firing.        *)
(* The variables of the components a specification does not run stay at    *)
(* None.                                                                   *)
(*                                                                         *)
(* One reconcile pass is a strictly sequential series of awaited store     *)
(* calls.  Every awaited call is one step of the model; `pc` is the        *)
(* position of the pass (the function being executed and the index of the  *)
(* call inside it).  The cluster store is external: what a read returns is *)
(* drawn from the set of values its type allows, and every call may fail.  *)
(*                                                                         *)
(* Option<T> is modelled as a sequence of length <= 1:                     *)
(*   None == <<>>,  Some(x) == <<x>>.                                      *)
(***************************************************************************)
EXTENDS Integers, Sequences, FiniteSets, TLC

VARIABLES
    status,     \* simulation.status as persisted in the store: Option(nonce)
    pc,         \* position of the reconcile pass: [fn, k]
    local,      \* the local variables of reconcile
    calls,      \* store calls issued by the current pass, in order
    result,     \* how the last pass ended and the Action it scheduled
    prev,       \* history: the previous pass, when it ran to completion
    network,    \* network loop: the Network resource being reconciled
    store,      \* network loop: the objects of the cluster store
    npc,        \* network loop: position of the pass: [phase, k]
    ncalls,     \* network loop: store calls issued by the current pass
    nresult,    \* network loop: how the last pass ended
    nstart,     \* network loop, history: the store when the pass started
    resp,       \* RPC client: the HTTP response of the peer
    reply,      \* RPC client: where the call is suspended, what it returned
    fragment,   \* resolver: the user's spec
    resolved,   \* resolver: what resolution returned
    ceramic,    \* builder: the variant list of the network spec
    cfg,        \* builder: what resolution of the variant list returned
    datadog,    \* builder: the datadog settings of the network built for
    workload,   \* builder: what the workload builder returned
    addressed,  \* naming: the peers named so far
    simrun,     \* jobs: the simulation, the pass at work and its nonce
    jobs,       \* jobs: the job objects applied so far, in order
    rng,        \* twin passes: the random source injected into each context
    twins,      \* twin passes: the position, nonce and calls of each pass
    cluster,    \* two instances: the objects of the shared store
    inst,       \* two instances: the position of the pass of each instance
    rerun       \* repeated passes, history: what the stub serves every pass
                \* and the mutating requests of the last completed pass

simvars == <<status, pc, local, calls, result, prev>>
netvars == <<network, store, npc, ncalls, nresult, nstart>>
rpcvars == <<resp, reply>>
resvars == <<fragment, resolved>>
bldvars == <<ceramic, cfg, datadog, workload>>
namevars == <<addressed>>
jobvars == <<simrun, jobs>>
seedvars == <<rng, twins>>
isovars == <<cluster, inst>>
rerunvars == <<rerun>>
vars == <<simvars, netvars, rpcvars, resvars, bldvars, namevars, jobvars, seedvars, isovars, rerunvars>>

----------------------------------------------------------------------------
(* Bounds *)

\* Longest peer registry the store returns.
MaxPeers == 3
\* Number of distinct values the random nonce (a u32 in the code) can take.
NumNonces == 2
\* Largest ready count a workload or job reports.
MaxReady == 1

----------------------------------------------------------------------------
(* Option helpers (Rust std) *)

None == <<>>
Some(x) == <<x>>
IsSome(o) == Len(o) > 0
\* Option::unwrap_or_default for an Option<i32>
UnwrapOrDefault(o) == IF IsSome(o) THEN o[1] ELSE 0

\* The variables of a component that a specification does not run.
NetAtRest ==
    /\ network = None /\ store = None /\ npc = None
    /\ ncalls = None /\ nresult = None /\ nstart = None
RpcAtRest == resp = None /\ reply = None
ResAtRest == fragment = None /\ resolved = None
BldAtRest == ceramic = None /\ cfg = None /\ datadog = None /\ workload = None
NameAtRest == addressed = None
JobAtRest == simrun = None /\ jobs = None
SeedAtRest == rng = None /\ twins = None
IsoAtRest == cluster = None /\ inst = None
RerunAtRest == rerun = None
SimAtRest ==
    /\ status = None /\ pc = None /\ local = None
    /\ calls = None /\ result = None /\ prev = None

----------------------------------------------------------------------------
(* Names *)

MANAGER_SERVICE_NAME == "goose"
MANAGER_JOB_NAME == "simulate-manager"
WORKER_JOB_NAME == "simulate-worker"
JAEGER_SERVICE_NAME == "jaeger"
OTEL_SERVICE_NAME == "otel"
OTEL_CR_BINDING == "monitoring-cluster-role-binding"
OTEL_CR == "monitoring-cluster-role"
OTEL_ACCOUNT == "monitoring-service-account"
OTEL_CONFIG_MAP_NAME == "otel-config"
PROM_CONFIG_MAP_NAME == "prom-config"
PEERS_CONFIG_MAP_NAME == "keramik-peers"

----------------------------------------------------------------------------
(* Values the store can return *)

Nonces == 1..NumNonces

\* Peer is a tagged union; only the tag matters to the simulation loop.
PeerKinds == {"Ceramic", "Ipfs"}

RECURSIVE SeqsUpTo(_, _)
SeqsUpTo(S, n) ==
    IF n = 0 THEN {<<>>}
    ELSE LET shorter == SeqsUpTo(S, n - 1)
         IN  shorter \cup {Append(s, x) : s \in {t \in shorter : Len(t) = n - 1}, x \in S}

\* The text stored under the peers key: the JSON of a peer list, or text that
\* does not parse as one.
PeersTexts ==
    {[parses |-> TRUE, peers |-> s] : s \in SeqsUpTo(PeerKinds, MaxPeers)}
        \cup {[parses |-> FALSE, peers |-> <<>>]}

\* The peers ConfigMap: data is Option<map>, the entry under PEERS_MAP_KEY is
\* Option<text>.
NoDataMap == [data |-> None]
NoKeyMap == [data |-> Some([entry |-> None])]
TextMap(t) == [data |-> Some([entry |-> Some(t)])]
PeersConfigMaps == {NoDataMap, NoKeyMap} \cup {TextMap(t) : t \in PeersTexts}

\* A StatefulSet as returned by get_status: status is Option<StatefulSetStatus>,
\* ready_replicas is Option<i32>.
StatefulSets ==
    {[status |-> None]}
        \cup {[status |-> Some([ready_replicas |-> r])] :
                r \in {None} \cup {Some(n) : n \in 0..MaxReady}}

\* A Job as returned by get_status: status is Option<JobStatus>, ready is Option<i32>.
Jobs ==
    {[status |-> None]}
        \cup {[status |-> Some([ready |-> r])] :
                r \in {None} \cup {Some(n) : n \in 0..MaxReady}}

----------------------------------------------------------------------------
(* Store calls *)

\* A request to the store.  nonce and target_peer are the parts of a job spec
\* (or of the status patch) that vary between passes.
Call(op, kind, name, nonce, target_peer) ==
    [op |-> op, kind |-> kind, name |-> name,
     nonce |-> nonce, target_peer |-> target_peer, ok |-> TRUE]

Apply(kind, name) == Call("apply", kind, name, None, None)
GetStatus(kind, name) == Call("get_status", kind, name, None, None)

Failed(c) == [c EXCEPT !.ok = FALSE]

Mutating(c) == c.op \in {"apply", "delete", "patch_status"}

\* Action::requeue(Duration::from_secs(s))
Requeue(s) == [requeue |-> s]

At(fn, k) == [fn |-> fn, k |-> k]
Done == At("done", 1)

Running == [ret |-> "running", action |-> None]
Ok(a) == [ret |-> "Ok", action |-> Some(a)]
Err(a) == [ret |-> "Err", action |-> Some(a)]
Panicked == [ret |-> "panic", action |-> None]

\* on_error: every Err of reconcile is answered with a 5 second requeue.
on_error == Requeue(5)

\* The pass stops at the failed call: `?` returns the error to the controller
\* runtime, which calls on_error.
Abort(c) ==
    /\ calls' = Append(calls, Failed(c))
    /\ pc' = Done
    /\ result' = Err(on_error)

\* return Ok(action)
Return(a) ==
    /\ pc' = Done
    /\ result' = Ok(a)

\* An unwrap() on None: the pass unwinds, nothing is returned to the runtime.
Panic ==
    /\ pc' = Done
    /\ result' = Panicked

----------------------------------------------------------------------------
(* reconcile, lines 139-146: load the status or generate one *)


\* Mutant: the persisted status is ignored and a nonce is generated every pass.
LoadStatus_regenerate(st, fresh) == fresh

LoadStatus(st, fresh) == IF IsSome(st) THEN st[1] ELSE fresh

NoLocal ==
    [nonce |-> 0, map |-> None, num_peers |-> 0,
     jaeger |-> None, prom |-> None, otel |-> None,
     redis |-> None, manager_job |-> None, i |-> 0]

\* What is remembered of a pass that ran to completion: the peer count and the
\* manager's ready count it read, and the calls it issued.
NoPrev == [complete |-> FALSE, num_peers |-> 0, manager_ready |-> 0, calls |-> <<>>]

\* The pass ended Ok with the status patch as its last call.
Completed ==
    /\ pc = Done
    /\ result.ret = "Ok"
    /\ Len(calls) > 0
    /\ calls[Len(calls)].op = "patch_status"

Init ==
    /\ status \in {None} \cup {Some(n) : n \in Nonces}
    /\ pc = At("idle", 1)
    /\ local = NoLocal
    /\ calls = <<>>
    /\ result = [ret |-> "none", action |-> None]
    /\ prev = NoPrev
    /\ NetAtRest /\ RpcAtRest /\ ResAtRest
    /\ BldAtRest /\ NameAtRest /\ JobAtRest
    /\ SeedAtRest /\ IsoAtRest /\ RerunAtRest

\* A pass starts on the first watch event, or when the scheduled requeue fires.
Reconcile ==
    /\ \/ pc.fn = "idle"
       \/ pc = Done /\ IsSome(result.action)
    /\ \E fresh \in Nonces :
         local' = [NoLocal EXCEPT !.nonce = LoadStatus(status, fresh)]
    /\ prev' = IF Completed
               THEN [complete |-> TRUE, num_peers |-> local.num_peers,
                     manager_ready |-> UnwrapOrDefault(local.manager_job[1].status[1].ready),
                     calls |-> calls]
               ELSE NoPrev
    /\ calls' = <<>>
    /\ result' = Running
    /\ pc' = At("get_num_peers", 1)
    /\ UNCHANGED status

----------------------------------------------------------------------------
(* get_num_peers *)

\* serde_json::from_str::<Vec<Peer>>(value): Err when the text is no peer list
ParsePeers(text) == IF text.parses THEN Some(text.peers) ELSE None

IsCeramic(peer) == peer = "Ceramic"


\* Mutant: every registry entry is counted, whatever its kind.
NumPeers_all(peers) == Len(peers)

\* .into_iter().filter(|peer| matches!(peer, Peer::Ceramic(_))).collect(); peers.len()
NumPeers(peers) == Len(SelectSeq(peers, IsCeramic))

\* The three unwrap()s of get_num_peers: None when one of them panics.
RegistryPeers(map) ==
    IF ~IsSome(map.data) THEN None
    ELSE IF ~IsSome(map.data[1].entry) THEN None
    ELSE ParsePeers(map.data[1].entry[1])

GetNumPeers ==
    /\ pc = At("get_num_peers", 1)
    /\ LET c == Call("get", "ConfigMap", PEERS_CONFIG_MAP_NAME, None, None)
       IN  \/ Abort(c) /\ UNCHANGED local
           \/ \E map \in PeersConfigMaps :
                /\ calls' = Append(calls, c)
                /\ IF IsSome(RegistryPeers(map))
                   THEN /\ local' = [local EXCEPT
                                       !.map = Some(map),
                                       !.num_peers = NumPeers(RegistryPeers(map)[1])]
                        /\ pc' = At("apply_jaeger", 1)
                        /\ UNCHANGED result
                   ELSE /\ local' = [local EXCEPT !.map = Some(map)]
                        /\ Panic
    /\ UNCHANGED <<status, prev>>

----------------------------------------------------------------------------
(* apply_jaeger, apply_prometheus, apply_opentelemetry, apply_redis, apply_manager *)

\* One awaited apply of the function `fn`, whose applies are `objs` in order:
\* on failure the pass aborts, after the last one control returns to reconcile
\* at `next`.
ApplyAll(fn, objs, next) ==
    /\ pc.fn = fn
    /\ LET c == objs[pc.k]
       IN  \/ Abort(c)
           \/ /\ calls' = Append(calls, c)
              /\ pc' = IF pc.k < Len(objs) THEN At(fn, pc.k + 1) ELSE next
              /\ UNCHANGED result
    /\ UNCHANGED <<status, local, prev>>

JaegerApplies ==
    << Apply("Service", JAEGER_SERVICE_NAME), Apply("StatefulSet", "jaeger") >>

PrometheusApplies ==
    << Apply("ConfigMap", PROM_CONFIG_MAP_NAME), Apply("StatefulSet", "prometheus") >>


\* Mutant: the cluster role binding of the telemetry collector is not applied.
OpentelemetryApplies_nobinding ==
    << Apply("ServiceAccount", OTEL_ACCOUNT),
       Apply("ClusterRole", OTEL_CR),
       Apply("ConfigMap", OTEL_CONFIG_MAP_NAME),
       Apply("Service", OTEL_SERVICE_NAME),
       Apply("StatefulSet", "opentelemetry") >>

OpentelemetryApplies ==
    << Apply("ServiceAccount", OTEL_ACCOUNT),
       Apply("ClusterRole", OTEL_CR),
       Apply("ClusterRoleBinding", OTEL_CR_BINDING),
       Apply("ConfigMap", OTEL_CONFIG_MAP_NAME),
       Apply("Service", OTEL_SERVICE_NAME),
       Apply("StatefulSet", "opentelemetry") >>

RedisApplies ==
    << Apply("Service", "redis"), Apply("StatefulSet", "redis") >>

\* Mutant: the manager job carries a nonce other than the one of the pass.
ManagerJob_othernonce(nonce) ==
    Call("apply", "Job", MANAGER_JOB_NAME, Some((nonce % NumNonces) + 1), None)

\* manager_job_spec(config): the job carries config.nonce (SIMULATE_NONCE)
ManagerJob(nonce) == Call("apply", "Job", MANAGER_JOB_NAME, Some(nonce), None)

ManagerApplies(nonce) ==
    << Apply("Service", MANAGER_SERVICE_NAME), ManagerJob(nonce) >>

ApplyJaeger == ApplyAll("apply_jaeger", JaegerApplies, At("apply_prometheus", 1))

ApplyPrometheus ==
    ApplyAll("apply_prometheus", PrometheusApplies, At("apply_opentelemetry", 1))

ApplyOpentelemetry ==
    ApplyAll("apply_opentelemetry", OpentelemetryApplies, At("monitoring_ready", 1))

ApplyRedis == ApplyAll("apply_redis", RedisApplies, At("redis_ready", 1))

ApplyManager ==
    ApplyAll("apply_manager", ManagerApplies(local.nonce), At("manager_status", 1))

----------------------------------------------------------------------------
(* monitoring_ready, redis_ready and the gates of reconcile *)

\* status.map(|status| status.ready_replicas.unwrap_or_default() > 0).unwrap_or_default()
StsReady(sts) ==
    IF IsSome(sts.status)
    THEN UnwrapOrDefault(sts.status[1].ready_replicas) > 0
    ELSE FALSE


\* Mutant: the telemetry workload is left out of the conjunction.
monitoring_ready_nootel(jaeger, prom, otel) == StsReady(jaeger) /\ StsReady(prom)

monitoring_ready(jaeger, prom, otel) ==
    StsReady(jaeger) /\ StsReady(prom) /\ StsReady(otel)


\* Mutant: a present status counts as ready, whatever its ready count.
redis_ready_anystatus(redis) == IsSome(redis.status)

redis_ready(redis) == StsReady(redis)

MonitoringNames == <<"jaeger", "prometheus", "opentelemetry">>

\* The three get_status calls of monitoring_ready, then `if !ready { return ... }`.
MonitoringReady ==
    /\ pc.fn = "monitoring_ready"
    /\ LET c == GetStatus("StatefulSet", MonitoringNames[pc.k])
       IN  \/ Abort(c) /\ UNCHANGED local
           \/ \E sts \in StatefulSets :
                /\ calls' = Append(calls, c)
                /\ local' = CASE pc.k = 1 -> [local EXCEPT !.jaeger = Some(sts)]
                              [] pc.k = 2 -> [local EXCEPT !.prom = Some(sts)]
                              [] pc.k = 3 -> [local EXCEPT !.otel = Some(sts)]
                /\ IF pc.k < 3
                   THEN pc' = At("monitoring_ready", pc.k + 1) /\ UNCHANGED result
                   ELSE IF monitoring_ready(local.jaeger[1], local.prom[1], sts)
                        THEN pc' = At("apply_redis", 1) /\ UNCHANGED result
                        ELSE Return(Requeue(10))
    /\ UNCHANGED <<status, prev>>

RedisReady ==
    /\ pc.fn = "redis_ready"
    /\ LET c == GetStatus("StatefulSet", "redis")
       IN  \/ Abort(c) /\ UNCHANGED local
           \/ \E sts \in StatefulSets :
                /\ calls' = Append(calls, c)
                /\ local' = [local EXCEPT !.redis = Some(sts)]
                /\ IF redis_ready(sts)
                   THEN pc' = At("apply_manager", 1) /\ UNCHANGED result
                   ELSE Return(Requeue(10))
    /\ UNCHANGED <<status, prev>>

----------------------------------------------------------------------------
(* reconcile, lines 180-195: the manager gate *)

\* manager_job.status.unwrap().ready.unwrap_or_default(), status being Some
manager_ready(job) == UnwrapOrDefault(job.status[1].ready)


\* Mutant: the comparison is >= instead of >.
AfterManagerStatus_ge(ready) ==
    IF ready >= 0 THEN At("apply_n_workers", 1) ELSE At("patch_status", 1)

\* Where reconcile continues after reading the manager's ready count.
AfterManagerStatus(ready) ==
    IF ready > 0 THEN At("apply_n_workers", 1) ELSE At("patch_status", 1)

ManagerStatus ==
    /\ pc.fn = "manager_status"
    /\ LET c == GetStatus("Job", MANAGER_JOB_NAME)
       IN  \/ Abort(c) /\ UNCHANGED local
           \/ \E job \in Jobs :
                /\ calls' = Append(calls, c)
                /\ local' = [local EXCEPT !.manager_job = Some(job)]
                /\ IF IsSome(job.status)
                   THEN /\ pc' = AfterManagerStatus(manager_ready(job))
                        /\ UNCHANGED result
                   ELSE Panic
    /\ UNCHANGED <<status, prev>>

----------------------------------------------------------------------------
(* apply_n_workers *)


\* Mutant: worker names are numbered from 1.
WorkerName_onebased(i) == WORKER_JOB_NAME \o "-" \o ToString(i + 1)

\* WORKER_JOB_NAME.to_owned() + "-" + &i.to_string()
WorkerName(i) == WORKER_JOB_NAME \o "-" \o ToString(i)

\* worker_job_spec(WorkerConfig { target_peer: i, nonce, .. })
WorkerJob(i, nonce) == Call("apply", "Job", WorkerName(i), Some(nonce), Some(i))

\* Mutant: after the fan-out the jobs of the ordinals from the peer count up to
\* the longest registry are deleted.
ApplyNWorkers_prune ==
    /\ pc.fn = "apply_n_workers"
    /\ IF local.i < local.num_peers
       THEN LET c == WorkerJob(local.i, local.nonce)
            IN  \/ Abort(c) /\ UNCHANGED local
                \/ /\ calls' = Append(calls, c)
                   /\ local' = [local EXCEPT !.i = @ + 1]
                   /\ UNCHANGED <<pc, result>>
       ELSE IF local.i < MaxPeers
       THEN LET c == Call("delete", "Job", WorkerName(local.i), None, Some(local.i))
            IN  \/ Abort(c) /\ UNCHANGED local
                \/ /\ calls' = Append(calls, c)
                   /\ local' = [local EXCEPT !.i = @ + 1]
                   /\ UNCHANGED <<pc, result>>
       ELSE /\ pc' = At("patch_status", 1)
            /\ UNCHANGED <<local, calls, result>>
    /\ UNCHANGED <<status, prev>>

\* for i in 0..peers { apply_job(...).await?; }
ApplyNWorkers ==
    /\ pc.fn = "apply_n_workers"
    /\ IF local.i < local.num_peers
       THEN LET c == WorkerJob(local.i, local.nonce)
            IN  \/ Abort(c) /\ UNCHANGED local
                \/ /\ calls' = Append(calls, c)
                   /\ local' = [local EXCEPT !.i = @ + 1]
                   /\ UNCHANGED <<pc, result>>
       ELSE /\ pc' = At("patch_status", 1)
            /\ UNCHANGED <<local, calls, result>>
    /\ UNCHANGED <<status, prev>>

----------------------------------------------------------------------------
(* reconcile, lines 197-208: patch the status, requeue *)

SimulationName == "test"

StatusPatch(nonce) == Call("patch_status", "Simulation", SimulationName, Some(nonce), None)


\* Mutant: the status is patched only when the simulation has none yet.
PatchStatus_onlyfresh ==
    /\ pc.fn = "patch_status"
    /\ IF IsSome(status)
       THEN Return(Requeue(10)) /\ UNCHANGED <<status, calls>>
       ELSE LET c == StatusPatch(local.nonce)
            IN  \/ Abort(c) /\ UNCHANGED status
                \/ /\ calls' = Append(calls, c)
                   /\ status' = Some(local.nonce)
                   /\ Return(Requeue(10))
    /\ UNCHANGED <<local, prev>>

PatchStatus ==
    /\ pc.fn = "patch_status"
    /\ LET c == StatusPatch(local.nonce)
       IN  \/ Abort(c) /\ UNCHANGED status
           \/ /\ calls' = Append(calls, c)
              /\ status' = Some(local.nonce)
              /\ Return(Requeue(10))
    /\ UNCHANGED <<local, prev>>

----------------------------------------------------------------------------

Next ==
    \/ Reconcile /\ UNCHANGED <<netvars, rpcvars, resvars, bldvars, namevars, jobvars, seedvars, isovars, rerunvars>>
    \/ GetNumPeers /\ UNCHANGED <<netvars, rpcvars, resvars, bldvars, namevars, jobvars, seedvars, isovars, rerunvars>>
    \/ ApplyJaeger /\ UNCHANGED <<netvars, rpcvars, resvars, bldvars, namevars, jobvars, seedvars, isovars, rerunvars>>
    \/ ApplyPrometheus /\ UNCHANGED <<netvars, rpcvars, resvars, bldvars, namevars, jobvars, seedvars, isovars, rerunvars>>
    \/ ApplyOpentelemetry /\ UNCHANGED <<netvars, rpcvars, resvars, bldvars, namevars, jobvars, seedvars, isovars, rerunvars>>
    \/ MonitoringReady /\ UNCHANGED <<netvars, rpcvars, resvars, bldvars, namevars, jobvars, seedvars, isovars, rerunvars>>
    \/ ApplyRedis /\ UNCHANGED <<netvars, rpcvars, resvars, bldvars, namevars, jobvars, seedvars, isovars, rerunvars>>
    \/ RedisReady /\ UNCHANGED <<netvars, rpcvars, resvars, bldvars, namevars, jobvars, seedvars, isovars, rerunvars>>
    \/ ApplyManager /\ UNCHANGED <<netvars, rpcvars, resvars, bldvars, namevars, jobvars, seedvars, isovars, rerunvars>>
    \/ ManagerStatus /\ UNCHANGED <<netvars, rpcvars, resvars, bldvars, namevars, jobvars, seedvars, isovars, rerunvars>>
    \/ ApplyNWorkers /\ UNCHANGED <<netvars, rpcvars, resvars, bldvars, namevars, jobvars, seedvars, isovars, rerunvars>>
    \/ PatchStatus /\ UNCHANGED <<netvars, rpcvars, resvars, bldvars, namevars, jobvars, seedvars, isovars, rerunvars>>

Spec == Init /\ [][Next]_vars

----------------------------------------------------------------------------
(* Vocabulary of the properties *)

\* The request of a call, whether it succeeded or not.
Req(c) == [c EXCEPT !.ok = TRUE]

PassEnded == pc = Done

\* Some call of the pass asked to apply the object kind/name.
ApplyIssued(kind, name) ==
    \E i \in DOMAIN calls :
        calls[i].op = "apply" /\ calls[i].kind = kind /\ calls[i].name = name

\* Position of the successful call c in the pass, 0 when there is none.
PosOf(c) ==
    IF \E i \in DOMAIN calls : calls[i] = c
    THEN CHOOSE i \in DOMAIN calls : calls[i] = c /\ \A j \in 1..(i - 1) : calls[j] # c
    ELSE 0

IsWorkerApply(c) == c.op = "apply" /\ c.kind = "Job" /\ IsSome(c.target_peer)
WorkerCalls == SelectSeq(calls, IsWorkerApply)

IsManagerApply(c) ==
    /\ c.op = "apply"
    /\ \/ c.kind = "Service" /\ c.name = "goose"
       \/ c.kind = "Job" /\ c.name = "simulate-manager"
ManagerCalls == SelectSeq(calls, IsManagerApply)

IsQueueApply(c) == c.op = "apply" /\ c.name = "redis"
QueueCalls == SelectSeq(calls, IsQueueApply)

IsStatusPatch(c) == c.op = "patch_status"
StatusPatches == SelectSeq(calls, IsStatusPatch)

\* A workload or job response that reports a ready count above zero.
ReportsReadyReplicas(sts) ==
    /\ sts.status # <<>>
    /\ sts.status[1].ready_replicas # <<>>
    /\ sts.status[1].ready_replicas[1] > 0

JobReportsReady(job) ==
    /\ job.status # <<>>
    /\ job.status[1].ready # <<>>
    /\ job.status[1].ready[1] > 0

MonitoringWasRead == local.jaeger # <<>> /\ local.prom # <<>> /\ local.otel # <<>>
AllMonitoringReady ==
    /\ MonitoringWasRead
    /\ ReportsReadyReplicas(local.jaeger[1])
    /\ ReportsReadyReplicas(local.prom[1])
    /\ ReportsReadyReplicas(local.otel[1])

QueueWasRead == local.redis # <<>>
QueueReady == QueueWasRead /\ ReportsReadyReplicas(local.redis[1])

ManagerWasRead == local.manager_job # <<>>
ManagerReady == ManagerWasRead /\ JobReportsReady(local.manager_job[1])

ScheduledRequeue(secs) == result.action = <<[requeue |-> secs]>>

----------------------------------------------------------------------------
(* C1 *)

\* C1: once a pass has read the status of the tracing, metrics and telemetry
\* workloads, then if one of them reports no status, no ready count or zero
\* ready replicas the pass has issued no apply of a queue, manager or worker
\* resource and has ended Ok with a 10 second requeue; if all three report
\* ready replicas > 0 the pass goes on to apply the queue service.
C1_ObservabilityGate ==
    MonitoringWasRead =>
        IF AllMonitoringReady
        THEN \/ pc = [fn |-> "apply_redis", k |-> 1]
             \/ ApplyIssued("Service", "redis")
        ELSE /\ Len(QueueCalls) = 0
             /\ Len(ManagerCalls) = 0
             /\ Len(WorkerCalls) = 0
             /\ PassEnded
             /\ result.ret = "Ok"
             /\ ScheduledRequeue(10)

\* A pass stopped at the gate because only the telemetry workload is not ready.
C1_Witness ==
    /\ PassEnded
    /\ MonitoringWasRead
    /\ ReportsReadyReplicas(local.jaeger[1])
    /\ ReportsReadyReplicas(local.prom[1])
    /\ local.otel[1].status # <<>>
    /\ local.otel[1].status[1].ready_replicas = <<0>>
    /\ ScheduledRequeue(10)

----------------------------------------------------------------------------
(* C2 *)

\* C2: the status of the queue workload is read only after the queue service and
\* the queue workload were applied, in that order, in the same pass; the manager
\* service or job is applied only in a pass whose queue read reported ready
\* replicas > 0; a pass whose queue read reported anything else has ended Ok with
\* a 10 second requeue, having applied no manager and no worker resource.
C2_QueueGate ==
    LET svc == PosOf(Apply("Service", "redis"))
        sts == PosOf(Apply("StatefulSet", "redis"))
        rd  == PosOf(GetStatus("StatefulSet", "redis"))
    IN  /\ QueueWasRead => (0 < svc /\ svc < sts /\ sts < rd)
        /\ Len(ManagerCalls) > 0 => QueueReady
        /\ (QueueWasRead /\ ~QueueReady) =>
               /\ Len(ManagerCalls) = 0
               /\ Len(WorkerCalls) = 0
               /\ PassEnded
               /\ result.ret = "Ok"
               /\ ScheduledRequeue(10)

\* A pass stopped at the queue gate: the queue workload has a status without a
\* ready count.
C2_Witness ==
    /\ PassEnded
    /\ AllMonitoringReady
    /\ QueueWasRead
    /\ local.redis[1].status # <<>>
    /\ local.redis[1].status[1].ready_replicas = <<>>
    /\ ScheduledRequeue(10)

----------------------------------------------------------------------------
(* C3 *)

\* C3: whenever a pass has issued a worker job apply, it has before that applied
\* the manager service and the manager job and read the manager job's status, in
\* this order, and that status reported ready > 0; a pass whose manager status
\* reported ready = 0 or no ready count issues no worker job apply.
C3_ManagerGate ==
    LET svc == PosOf(Apply("Service", "goose"))
        job == PosOf(Call("apply", "Job", "simulate-manager", <<local.nonce>>, <<>>))
        rd  == PosOf(GetStatus("Job", "simulate-manager"))
    IN  /\ Len(WorkerCalls) > 0 =>
               /\ 0 < svc /\ svc < job /\ job < rd
               /\ \A i \in DOMAIN calls : IsWorkerApply(calls[i]) => rd < i
               /\ ManagerReady
        /\ (ManagerWasRead /\ ~ManagerReady) => Len(WorkerCalls) = 0

\* A pass with peers to target that ran to its end with a manager reporting
\* ready = 0.
C3_Witness ==
    /\ PassEnded
    /\ result.ret = "Ok"
    /\ ManagerWasRead
    /\ local.manager_job[1].status # <<>>
    /\ local.manager_job[1].status[1].ready = <<0>>
    /\ local.num_peers > 0
    /\ Len(StatusPatches) = 1

----------------------------------------------------------------------------
(* C4 *)

\* The worker job of ordinal i as the claim describes it.
ExpectedWorkerNames ==
    << "simulate-worker-0", "simulate-worker-1", "simulate-worker-2",
       "simulate-worker-3", "simulate-worker-4", "simulate-worker-5" >>

ExpectedWorker(i) ==
    [op |-> "apply", kind |-> "Job", name |-> ExpectedWorkerNames[i + 1],
     nonce |-> <<local.nonce>>, target_peer |-> <<i>>, ok |-> TRUE]

\* The pass is past the worker fan-out: it is about to patch the status or has
\* tried to.
PastFanOut == pc.fn = "patch_status" \/ Len(StatusPatches) > 0

\* C4: the worker job applies of a pass are, in order, those of ordinals
\* 0, 1, 2, ...: the k-th one is named simulate-worker-(k-1) and targets peer
\* k-1, none skipped or repeated and never more than the peer count; a pass that
\* passed all gates (manager ready) with peer count n is past the fan-out only
\* after exactly n of them succeeded, so none with n = 0.
C4_WorkerFanOut ==
    /\ Len(WorkerCalls) <= local.num_peers
    /\ \A k \in DOMAIN WorkerCalls : Req(WorkerCalls[k]) = ExpectedWorker(k - 1)
    /\ (PastFanOut /\ ManagerReady) =>
           /\ Len(WorkerCalls) = local.num_peers
           /\ \A k \in DOMAIN WorkerCalls : WorkerCalls[k].ok

\* A completed pass that fanned out to three peers.
C4_Witness ==
    /\ Completed
    /\ ManagerReady
    /\ local.num_peers = 3
    /\ Len(WorkerCalls) = 3

----------------------------------------------------------------------------
(* C5 *)

\* The registry the pass read, when it is a well-formed peer list.
RegistryWellFormed ==
    /\ local.map # <<>>
    /\ local.map[1].data # <<>>
    /\ local.map[1].data[1].entry # <<>>
    /\ local.map[1].data[1].entry[1].parses

RegistryRead == local.map[1].data[1].entry[1].peers

CeramicEntries(peers) == {i \in DOMAIN peers : peers[i] = "Ceramic"}

\* C5: the peer count of a pass is the number of Ceramic-kind entries of the
\* registry it read, wherever they stand among entries of another kind; a pass
\* that passed all gates fans out to exactly that many workers, with target
\* indices 0 .. count-1.
C5_CeramicPeerCount ==
    RegistryWellFormed =>
        LET n == Cardinality(CeramicEntries(RegistryRead))
        IN  /\ local.num_peers = n
            /\ (PastFanOut /\ ManagerReady) =>
                   /\ Len(WorkerCalls) = n
                   /\ {WorkerCalls[k].target_peer : k \in DOMAIN WorkerCalls}
                          = {<<i>> : i \in 0..(n - 1)}

\* A completed pass over a registry that begins with an entry of another kind
\* and has one between two Ceramic entries.
C5_Witness ==
    /\ Completed
    /\ ManagerReady
    /\ RegistryWellFormed
    /\ \/ RegistryRead = <<"Ceramic", "Ipfs", "Ceramic">>
       \/ RegistryRead = <<"Ipfs", "Ceramic", "Ceramic">>
    /\ Len(WorkerCalls) = 2

----------------------------------------------------------------------------
(* C6 *)

\* The nonces carried by the successful manager job, worker job and status patch
\* calls of the pass.
NoncesCarried ==
    {calls[i].nonce[1] : i \in {j \in DOMAIN calls : calls[j].ok /\ calls[j].nonce # <<>>}}

\* C6: the nonce is stable across passes: when a pass starts, every nonce that
\* the previous pass put into a manager job, a worker job or a status patch is
\* the nonce of the new pass.
C6_NonceStableAcrossPasses ==
    [][(pc = Done /\ pc' # Done) => NoncesCarried \subseteq {local'.nonce}]_vars

----------------------------------------------------------------------------
(* C7 *)

\* The last call of the pass is the successful status patch carrying the pass's
\* nonce.
EndsWithStatusPatch ==
    /\ Len(calls) > 0
    /\ calls[Len(calls)] =
           [op |-> "patch_status", kind |-> "Simulation", name |-> "test",
            nonce |-> <<local.nonce>>, target_peer |-> <<>>, ok |-> TRUE]

\* C7 as stated: every pass that ends without an error has issued the status
\* patch carrying its nonce, the passes stopped at a gate included.
C7_PatchedInEveryOkPass ==
    (PassEnded /\ result.ret = "Ok") => EndsWithStatusPatch

\* C7 as amended: a pass that ends without an error has issued the status patch
\* carrying its nonce, exactly once and as its last call, if and only if it
\* passed the observability gate and the queue gate; this holds whether or not
\* the manager reported ready.
C7_PatchedAfterGates ==
    (PassEnded /\ result.ret = "Ok") =>
        /\ (AllMonitoringReady /\ QueueReady) <=> EndsWithStatusPatch
        /\ EndsWithStatusPatch => Len(StatusPatches) = 1
        /\ ~EndsWithStatusPatch => Len(StatusPatches) = 0

\* A pass of a simulation that already has a status, with the manager not ready,
\* that ended with the status patch.
C7_Witness ==
    /\ PassEnded
    /\ result.ret = "Ok"
    /\ ManagerWasRead
    /\ ~ManagerReady
    /\ prev.complete
    /\ EndsWithStatusPatch

----------------------------------------------------------------------------
(* C8 *)

\* The applies of the observability stack, in the order the claim lists them.
ObservabilityApplies ==
    << [kind |-> "Service", name |-> "jaeger"],
       [kind |-> "StatefulSet", name |-> "jaeger"],
       [kind |-> "ConfigMap", name |-> "prom-config"],
       [kind |-> "StatefulSet", name |-> "prometheus"],
       [kind |-> "ServiceAccount", name |-> "monitoring-service-account"],
       [kind |-> "ClusterRole", name |-> "monitoring-cluster-role"],
       [kind |-> "ClusterRoleBinding", name |-> "monitoring-cluster-role-binding"],
       [kind |-> "ConfigMap", name |-> "otel-config"],
       [kind |-> "Service", name |-> "otel"],
       [kind |-> "StatefulSet", name |-> "opentelemetry"] >>

IsApply(c) == c.op = "apply"
AppliesIssued == SelectSeq(calls, IsApply)

\* The first n applies of the pass are the first n of the observability stack.
ObservabilityPrefix(n) ==
    /\ Len(AppliesIssued) >= n
    /\ \A j \in 1..n :
           /\ AppliesIssued[j].kind = ObservabilityApplies[j].kind
           /\ AppliesIssued[j].name = ObservabilityApplies[j].name

ObservabilityApplied ==
    /\ ObservabilityPrefix(Len(ObservabilityApplies))
    /\ \A j \in 1..Len(ObservabilityApplies) : AppliesIssued[j].ok

NoApplyFailed == \A i \in DOMAIN calls : calls[i].op = "apply" => calls[i].ok

\* C8 as stated: every pass issues the applies of the whole observability stack,
\* whatever the status, the readiness of the workloads and the presence or
\* content of the peer registry (a pass in which one of these applies itself
\* fails is not held against the claim).
C8_ObservabilityInEveryPass ==
    (PassEnded /\ NoApplyFailed) => ObservabilityApplied

\* C8 as amended: a pass whose registry read returned a well-formed peer list
\* issues the applies of the observability stack first and in order, each one
\* unless an earlier one failed, whatever the entries of the registry, whether or
\* not a status exists and whatever the workloads report; a pass whose registry
\* read failed or returned a registry without data, without the peers entry or
\* with unparsable text issues no apply at all.
C8_ObservabilityAfterRegistry ==
    /\ RegistryWellFormed =>
           /\ ObservabilityPrefix(IF Len(AppliesIssued) < Len(ObservabilityApplies)
                                  THEN Len(AppliesIssued)
                                  ELSE Len(ObservabilityApplies))
           /\ (PassEnded /\ NoApplyFailed) => ObservabilityApplied
           /\ (MonitoringWasRead \/ QueueWasRead \/ ManagerWasRead) => ObservabilityApplied
    /\ (PassEnded /\ ~RegistryWellFormed) => Len(AppliesIssued) = 0

\* A pass of a simulation without a status, with an empty registry and a tracing
\* workload without status, that ended after applying the observability stack.
C8_Witness ==
    /\ PassEnded
    /\ status = <<>>
    /\ RegistryWellFormed
    /\ RegistryRead = <<>>
    /\ MonitoringWasRead
    /\ local.jaeger[1].status = <<>>
    /\ ObservabilityApplied

----------------------------------------------------------------------------
(* C9 *)

\* C9: in an ended pass, a failed store call is the last call of the pass and
\* the pass is requeued after 5 seconds; a pass that ended without error is
\* requeued after 10 seconds; every ended pass has a requeue scheduled.
C9_RequeuePolicy ==
    PassEnded =>
        /\ \A i \in DOMAIN calls :
               ~calls[i].ok =>
                   /\ i = Len(calls)
                   /\ result.ret = "Err"
                   /\ ScheduledRequeue(5)
        /\ result.ret = "Ok" => ScheduledRequeue(10)
        /\ result.action # <<>>

----------------------------------------------------------------------------
(* A pass of the simulation loop after a completed one *)

\* The pass has so far read what the previous, completed pass read: the same
\* peer count and, once it has read the manager's status, the same ready count.
SameReadsAsPrev ==
    /\ prev.complete
    /\ local.num_peers = prev.num_peers
    /\ ManagerWasRead =>
           /\ local.manager_job[1].status # <<>>
           /\ (IF local.manager_job[1].status[1].ready = <<>>
               THEN 0
               ELSE local.manager_job[1].status[1].ready[1]) = prev.manager_ready

PrevRequests == {Req(prev.calls[j]) : j \in DOMAIN prev.calls}

\* When the previous pass ran to completion and the pass reads the same
\* store content, every mutating call the pass issues (apply, delete, status
\* patch) is a call the previous pass issued, with the same content.
SimIdempotent ==
    SameReadsAsPrev =>
        \A i \in DOMAIN calls :
            calls[i].op \in {"apply", "delete", "patch_status"} =>
                Req(calls[i]) \in PrevRequests

----------------------------------------------------------------------------
(* The network control loop.                                               *)
(*                                                                         *)
(* The pass is modelled as the sequence of store calls that the test stub  *)
(* of the loop serves (Stub::_run): one action per block of the stub, one  *)
(* step per awaited request.  The first request that fails ends the pass.  *)
(* The store is modelled for the objects the pass reads or deletes: the    *)
(* Network, the admin secret and the peer objects.                         *)

\* Most variants a network lists.
MaxVariants == 2
\* Most replicas the split of the replicas gives one variant.
MaxReplicas == 1
\* Longest time to live of a network, in seconds.
MaxTtl == 1
\* Greatest age of a network at the start of a pass, in seconds.
MaxAge == 2
\* Most requests about the bootstrap job in one pass.
MaxBootstrapRequests == 2

\* The pass removes the peer object sets of the indices below this one.
MAX_CERAMICS == 10

NETWORK_NAME == "test"
NAMESPACE_NAME == "keramik-test"
POSTGRES_AUTH_SECRET_NAME == "postgres-auth"
ADMIN_SECRET_NAME == "ceramic-admin"
ADMIN_SECRET_SOURCE == "private-key"
INIT_CONFIG_MAP_NAME == "ceramic-init"
BOOTSTRAP_JOB_NAME == "bootstrap"

IpfsKinds == {"Rust", "Go"}

\* One variant as the calls of the pass depend on it: its IPFS implementation
\* and the name of its init config map, the default one or the user's own.
InitConfigMaps == {INIT_CONFIG_MAP_NAME, "custom-init"}
CeramicBundles == [ipfs : IpfsKinds, init_config_map : InitConfigMaps]

\* The variant lists of a network: resolution never yields an empty one.
CeramicLists == SeqsUpTo(CeramicBundles, MaxVariants) \ {<<>>}

Networks == [ceramics : CeramicLists,
             private_key_secret : {None, Some(ADMIN_SECRET_SOURCE)},
             ttl_seconds : {None} \cup {Some(t) : t \in 1..MaxTtl}]

Obj(kind, name) == [kind |-> kind, name |-> name]

NetworkObj == Obj("Network", NETWORK_NAME)
AdminSecretObj == Obj("Secret", ADMIN_SECRET_NAME)

NetCall(op, kind, name) == [op |-> op, kind |-> kind, name |-> name, ok |-> TRUE]
NetApply(kind, name) == NetCall("apply", kind, name)
NetGet(kind, name) == NetCall("get", kind, name)
NetDelete(kind, name) == NetCall("delete", kind, name)
\* The lookup of a secret, with what the store answered.
NetLookup(name, found) ==
    [op |-> "get", kind |-> "Secret", name |-> name, ok |-> TRUE, found |-> found]

\* CeramicInfo::new: the names of the peer object set of one variant.
CeramicInfo_new(suffix, replicas) ==
    [replicas |-> replicas,
     suffix |-> suffix,
     stateful_set |-> "ceramic-" \o suffix,
     service |-> "ceramic-" \o suffix]

\* CeramicInfo::new_name and CeramicInfo::pod_name.
new_name(info, name) == name \o "-" \o info.suffix
pod_name(info, peer) == info.stateful_set \o "-" \o ToString(peer)

\* The objects of the store the model follows.
Followed(c) ==
    \/ c.kind \in {"Network"}
    \/ c.kind = "Secret" /\ c.name = ADMIN_SECRET_NAME
    \/ c.kind \in {"StatefulSet", "Service"}
       /\ \E i \in 0..(MAX_CERAMICS - 1) : c.name = "ceramic-" \o ToString(i)

\* What one successful call does to the store.
Effect(objs, c) ==
    IF ~Followed(c) THEN objs
    ELSE IF c.op \in {"apply", "create"} THEN objs \cup {Obj(c.kind, c.name)}
    ELSE IF c.op = "delete" THEN objs \ {Obj(c.kind, c.name)}
    ELSE objs

RECURSIVE Concat(_)
Concat(ss) == IF ss = <<>> THEN <<>> ELSE Head(ss) \o Concat(Tail(ss))

NetAt(phase, k) == [phase |-> phase, k |-> k]
NetIdle == NetAt("idle", 0)
NetDone == NetAt("done", 0)

NetRunning == [ret |-> "running"]
NetOk == [ret |-> "ok"]
\* A store error ends the pass, which is requeued after 5 seconds.
NetErr == [ret |-> "err", action |-> Some(Requeue(5))]
\* The configured source secret is missing: the pass ends and nothing is
\* scheduled.
NetAbandoned == [ret |-> "abandoned", action |-> None]

\* The last k calls of the pass.
LastCalls(k) == SubSeq(ncalls, Len(ncalls) - k + 1, Len(ncalls))

\* One awaited request of the pass: it fails and the pass ends with a store
\* error, or it is served and the pass goes on at `next`; when `next` is the
\* end of the pass, the pass returns `ret`.
NetStep(c, next, ret) ==
    \/ /\ ncalls' = Append(ncalls, [c EXCEPT !.ok = FALSE])
       /\ store' = store
       /\ npc' = NetDone
       /\ nresult' = NetErr
    \/ /\ ncalls' = Append(ncalls, c)
       /\ store' = Effect(store, c)
       /\ npc' = next
       /\ nresult' = IF next = NetDone THEN ret ELSE NetRunning

\* The request k + 1 of the block `reqs` of the phase `phase`; after the last
\* one the pass goes on with the phase `next`.
NetBlockStep(phase, reqs, k, next) ==
    /\ k < Len(reqs)
    /\ NetStep(reqs[k + 1],
               IF k + 1 < Len(reqs) THEN NetAt(phase, k + 1) ELSE NetAt(next, 0),
               NetOk)

\* Stub::default() has the admin secret in the store; the tests of the missing
\* secret start without it.
NetInit ==
    /\ network \in Networks
    /\ store \in {{NetworkObj}, {NetworkObj, AdminSecretObj}}
    /\ npc = NetIdle
    /\ ncalls = <<>>
    /\ nresult = [ret |-> "none"]
    /\ nstart = [objects |-> {}, age |-> 0]
    /\ SimAtRest /\ RpcAtRest /\ ResAtRest
    /\ BldAtRest /\ NameAtRest /\ JobAtRest
    /\ SeedAtRest /\ IsoAtRest /\ RerunAtRest

\* NetworkSpec::ttl_seconds: "The number of seconds this network should live.
\* If unset the network lives forever."  At an age equal to the time to live
\* the pass may take either branch.
MayBeExpired(net, age) == IsSome(net.ttl_seconds) /\ age >= net.ttl_seconds[1]
IsExpired(net, age) == IsSome(net.ttl_seconds) /\ age > net.ttl_seconds[1]

\* Mutant: the pass goes on to converge after the deletion of the network.
NetReconcile_noreturn ==
    /\ npc = NetIdle
    /\ NetworkObj \in store
    /\ \E edited \in Networks, age \in nstart.age..MaxAge, delete \in BOOLEAN :
        /\ delete => MayBeExpired(edited, age)
        /\ IsExpired(edited, age) => delete
        /\ network' = edited
        /\ nstart' = [objects |-> store, age |-> age]
        /\ IF delete
           THEN NetStep(NetDelete("Network", NETWORK_NAME), NetAt("namespace", 0), NetOk)
           ELSE /\ npc' = NetAt("namespace", 0)
                /\ ncalls' = <<>>
                /\ nresult' = NetRunning
                /\ store' = store

\* A pass starts on a watch event or when a requeue fires, and reads the
\* network as the user last wrote it.  Stub::_run: with `delete` set the only
\* call is the deletion of the network.
NetReconcile ==
    /\ npc = NetIdle
    /\ NetworkObj \in store
    /\ \E edited \in Networks, age \in nstart.age..MaxAge, delete \in BOOLEAN :
        /\ delete => MayBeExpired(edited, age)
        /\ IsExpired(edited, age) => delete
        /\ network' = edited
        /\ nstart' = [objects |-> store, age |-> age]
        /\ IF delete
           THEN NetStep(NetDelete("Network", NETWORK_NAME), NetDone, NetOk)
           ELSE /\ npc' = NetAt("namespace", 0)
                /\ ncalls' = <<>>
                /\ nresult' = NetRunning
                /\ store' = store

ApplyNamespace ==
    /\ npc.phase = "namespace"
    /\ NetBlockStep("namespace", <<NetApply("Namespace", NAMESPACE_NAME)>>, npc.k, "cas")
    /\ UNCHANGED <<network, nstart>>

CasNames == <<"cas", "cas-ipfs", "ganache", "cas-postgres", "localstack">>

CasCalls ==
    <<NetLookup(POSTGRES_AUTH_SECRET_NAME, TRUE)>>
    \o [i \in 1..Len(CasNames) |-> NetApply("Service", CasNames[i])]
    \o [i \in 1..Len(CasNames) |-> NetApply("StatefulSet", CasNames[i])]

\* "Run/skip all CAS-related configuration": the next request of the block;
\* when the block is skipped the pass goes on with the admin secret.
ApplyCas ==
    /\ npc.phase = "cas"
    /\ NetBlockStep("cas", CasCalls, npc.k, "admin_secret")
    /\ UNCHANGED <<network, nstart>>

\* Which steps the resolution of the admin secret takes: use the existing
\* secret; else copy it from the configured source, and stop when that is
\* missing; else generate and create one.
AdminSecretPlan(found, source, source_found) ==
    [source |-> ~found /\ IsSome(source),
     create |-> ~found /\ (IsSome(source) => source_found),
     stop   |-> ~found /\ IsSome(source) /\ ~source_found]

\* Mutant: the secret is created before its source is looked up.
AdminSecretCalls_createfirst(found, source, source_found) ==
    LET plan == AdminSecretPlan(found, source, source_found)
    IN  <<NetLookup(ADMIN_SECRET_NAME, found)>>
        \o (IF plan.create
            THEN <<NetCall("create", "Secret", ADMIN_SECRET_NAME)>> ELSE <<>>)
        \o (IF plan.source THEN <<NetLookup(source[1], source_found)>> ELSE <<>>)

\* The calls that resolve the admin secret, in the order the stub serves them:
\* the lookup, the lookup of the source, the creation.
AdminSecretCalls(found, source, source_found) ==
    LET plan == AdminSecretPlan(found, source, source_found)
    IN  <<NetLookup(ADMIN_SECRET_NAME, found)>>
        \o (IF plan.source THEN <<NetLookup(source[1], source_found)>> ELSE <<>>)
        \o (IF plan.create
            THEN <<NetCall("create", "Secret", ADMIN_SECRET_NAME)>> ELSE <<>>)

\* The next request of the resolution of the admin secret.  The first one is
\* the lookup, answered from the store; the source secret is the user's:
\* whether it is there is drawn at its lookup.  The block starts after the CAS
\* block or in its place.
AdminSecret ==
    /\ npc.phase = "admin_secret" \/ npc = NetAt("cas", 0)
    /\ LET j == IF npc.phase = "admin_secret" THEN npc.k ELSE 0
       IN  \E found, source_found \in BOOLEAN :
             LET source == network.private_key_secret
                 reqs == AdminSecretCalls(found, source, source_found)
                 missing == AdminSecretPlan(found, source, source_found).stop
             IN  /\ j = 0 => (found <=> AdminSecretObj \in store)
                 /\ j < Len(reqs)
                 /\ SubSeq(reqs, 1, j) = LastCalls(j)
                 /\ NetStep(reqs[j + 1],
                            IF j + 1 < Len(reqs) THEN NetAt("admin_secret", j + 1)
                            ELSE IF missing THEN NetDone
                            ELSE NetAt("deletes", 0),
                            NetAbandoned)
    /\ UNCHANGED <<network, nstart>>

\* Mutant: the first index the network no longer has is kept.
CeramicDeletes_skipfirst(n) ==
    Concat([i \in 1..(MAX_CERAMICS - n - 1) |->
        <<NetDelete("StatefulSet", "ceramic-" \o ToString(n + i)),
          NetDelete("Service", "ceramic-" \o ToString(n + i))>>])

\* The deletes of the peer object sets the network no longer has: of every
\* index from the number of variants up to MAX_CERAMICS - 1, the stateful set
\* and then the service.
CeramicDeletes(n) ==
    Concat([i \in 1..(MAX_CERAMICS - n) |->
        LET info == CeramicInfo_new(ToString(n + i - 1), 0)
        IN  <<NetDelete("StatefulSet", info.stateful_set),
              NetDelete("Service", info.service)>>])

DeleteCeramics ==
    /\ npc.phase = "deletes"
    /\ NetBlockStep("deletes", CeramicDeletes(Len(network.ceramics)), npc.k, "ceramics")
    /\ UNCHANGED <<network, nstart>>

\* config_maps: the init config map, when the config names the default one,
\* and the config maps of the IPFS variant (none for Rust, the container init
\* scripts for Go), in the order of their names.
config_maps(info, config) ==
    (IF config.init_config_map = INIT_CONFIG_MAP_NAME
     THEN <<INIT_CONFIG_MAP_NAME>> ELSE <<>>)
    \o (IF config.ipfs = "Go" THEN <<new_name(info, "ipfs-container-init")>> ELSE <<>>)

\* Mutant: the stateful set of a variant is applied before its service.
CeramicApplies_setfirst(i, c) ==
    LET info == CeramicInfo_new(ToString(i - 1), 0)
        cms == config_maps(info, c)
    IN  [j \in 1..Len(cms) |-> NetApply("ConfigMap", cms[j])]
        \o <<NetApply("StatefulSet", info.stateful_set),
             NetApply("Service", info.service)>>

\* The applies of one variant: its config maps, its service, its stateful set.
CeramicApplies(i, c) ==
    LET info == CeramicInfo_new(ToString(i - 1), 0)
        cms == config_maps(info, c)
    IN  [j \in 1..Len(cms) |-> NetApply("ConfigMap", cms[j])]
        \o <<NetApply("Service", info.service),
             NetApply("StatefulSet", info.stateful_set)>>

ApplyCeramics ==
    /\ npc.phase = "ceramics"
    /\ NetBlockStep("ceramics",
                    Concat([i \in 1..Len(network.ceramics) |->
                               CeramicApplies(i, network.ceramics[i])]),
                    npc.k, "pods")
    /\ UNCHANGED <<network, nstart>>

\* The status of every pod of every variant; replicas[i] is the number of
\* replicas of variant i.
PodStatusCalls(replicas) ==
    Concat([i \in 1..Len(replicas) |->
        LET info == CeramicInfo_new(ToString(i - 1), replicas[i])
        IN  [j \in 1..info.replicas |-> NetGet("Pod", pod_name(info, j - 1))]])

\* The status request of the next pod: the pods asked so far are the first of
\* the pods of some split of the replicas.
PodStatus ==
    /\ npc.phase = "pods"
    /\ \E replicas \in [1..Len(network.ceramics) -> 0..MaxReplicas] :
        LET reqs == PodStatusCalls(replicas)
        IN  /\ npc.k < Len(reqs)
            /\ SubSeq(reqs, 1, npc.k) = LastCalls(npc.k)
            /\ NetStep(reqs[npc.k + 1], NetAt("pods", npc.k + 1), NetOk)
    /\ UNCHANGED <<network, nstart>>

\* After the status of the last pod the peer registry is written.
ApplyPeersConfigMap ==
    /\ npc.phase = "pods"
    /\ NetStep(NetApply("ConfigMap", PEERS_CONFIG_MAP_NAME), NetAt("bootstrap", 0), NetOk)
    /\ UNCHANGED <<network, nstart>>

\* A request for the bootstrap job that is answered with the job or without.
NetJobGet(found) ==
    [op |-> "get", kind |-> "Job", name |-> BOOTSTRAP_JOB_NAME, ok |-> TRUE, found |-> found]

\* The requests about the bootstrap job the stub serves, one after the other:
\* any number of them, each with its answer.
BootstrapRequests ==
    {NetJobGet(TRUE), NetJobGet(FALSE), NetApply("Job", BOOTSTRAP_JOB_NAME)}

ApplyBootstrapJob ==
    /\ npc.phase = "bootstrap"
    /\ npc.k < MaxBootstrapRequests
    /\ \E c \in BootstrapRequests :
        NetStep(c, NetAt("bootstrap", npc.k + 1), NetOk)
    /\ UNCHANGED <<network, nstart>>

NetPatchStatus ==
    /\ npc.phase = "bootstrap"
    /\ NetStep(NetCall("patch_status", "Network", NETWORK_NAME), NetDone, NetOk)
    /\ UNCHANGED <<network, nstart>>

\* The pass has returned: the loop waits for the next event or requeue.
NetReturn ==
    /\ npc = NetDone
    /\ npc' = NetIdle
    /\ ncalls' = <<>>
    /\ nstart' = [nstart EXCEPT !.objects = {}]
    /\ UNCHANGED <<network, store, nresult>>

NetNext ==
    \/ NetReconcile /\ UNCHANGED <<simvars, rpcvars, resvars, bldvars, namevars, jobvars, seedvars, isovars, rerunvars>>
    \/ ApplyNamespace /\ UNCHANGED <<simvars, rpcvars, resvars, bldvars, namevars, jobvars, seedvars, isovars, rerunvars>>
    \/ ApplyCas /\ UNCHANGED <<simvars, rpcvars, resvars, bldvars, namevars, jobvars, seedvars, isovars, rerunvars>>
    \/ AdminSecret /\ UNCHANGED <<simvars, rpcvars, resvars, bldvars, namevars, jobvars, seedvars, isovars, rerunvars>>
    \/ DeleteCeramics /\ UNCHANGED <<simvars, rpcvars, resvars, bldvars, namevars, jobvars, seedvars, isovars, rerunvars>>
    \/ ApplyCeramics /\ UNCHANGED <<simvars, rpcvars, resvars, bldvars, namevars, jobvars, seedvars, isovars, rerunvars>>
    \/ PodStatus /\ UNCHANGED <<simvars, rpcvars, resvars, bldvars, namevars, jobvars, seedvars, isovars, rerunvars>>
    \/ ApplyPeersConfigMap /\ UNCHANGED <<simvars, rpcvars, resvars, bldvars, namevars, jobvars, seedvars, isovars, rerunvars>>
    \/ ApplyBootstrapJob /\ UNCHANGED <<simvars, rpcvars, resvars, bldvars, namevars, jobvars, seedvars, isovars, rerunvars>>
    \/ NetPatchStatus /\ UNCHANGED <<simvars, rpcvars, resvars, bldvars, namevars, jobvars, seedvars, isovars, rerunvars>>
    \/ NetReturn /\ UNCHANGED <<simvars, rpcvars, resvars, bldvars, namevars, jobvars, seedvars, isovars, rerunvars>>

NetSpec == NetInit /\ [][NetNext]_vars

----------------------------------------------------------------------------
(* Vocabulary of the properties of the network loop *)

Issues(P(_)) == \E i \in 1..Len(ncalls) : P(ncalls[i])
NoneIssued(P(_)) == ~Issues(P)
\* The positions of the calls of the pass that satisfy P.
Pos(P(_)) == {i \in 1..Len(ncalls) : P(ncalls[i])}
\* Every position of A comes before every position of B.
Before(A, B) == \A i \in A : \A j \in B : i < j
\* Every call satisfying P comes before every call satisfying Q.
AllBefore(P(_), Q(_)) == Before(Pos(P), Pos(Q))

PeerSetName(i) == "ceramic-" \o ToString(i)
PeerSetNames == {PeerSetName(i) : i \in 0..(MAX_CERAMICS - 1)}
PeerConfigMapNames ==
    {"ceramic-init"} \cup {"ipfs-container-init-" \o ToString(i) : i \in 0..(MAX_CERAMICS - 1)}
PeerSetObjs(i) == {Obj("StatefulSet", PeerSetName(i)), Obj("Service", PeerSetName(i))}
PeerObjsFrom(lo, hi) == UNION {PeerSetObjs(i) : i \in lo..hi}
AllPeerObjs == PeerObjsFrom(0, MAX_CERAMICS - 1)

\* The number of variants the pass is to converge to.
Desired == Len(network.ceramics)

IsPeerDelete(c) ==
    c.op = "delete" /\ c.kind \in {"StatefulSet", "Service"} /\ c.name \in PeerSetNames
IsPeerDeleteOf(c, i) == c.op = "delete" /\ Obj(c.kind, c.name) \in PeerSetObjs(i)
\* An apply of a config map, the service or the stateful set of a variant.
IsPeerApply(c) ==
    /\ c.op = "apply"
    /\ \/ c.kind \in {"StatefulSet", "Service"} /\ c.name \in PeerSetNames
       \/ c.kind = "ConfigMap" /\ c.name \in PeerConfigMapNames

\* The store held exactly the peer object sets 0..n-1 when the pass started.
StartedWith(n) == nstart.objects \cap AllPeerObjs = PeerObjsFrom(0, n - 1)

\* The pass has issued all its deletes and not yet any apply of a variant.
DeletesJustDone == npc = NetAt("ceramics", 0)

----------------------------------------------------------------------------
(* C11: stale-peer cleanup *)

\* C11 as stated: when the desired count dropped from P to D < P, the peer
\* object sets the pass issues deletes for are exactly those of the indices
\* D..P-1.
C11_DeletesExactlyDropped ==
    \A P \in 1..MAX_CERAMICS :
        (DeletesJustDone /\ StartedWith(P) /\ Desired < P)
            => \A i \in 0..(MAX_CERAMICS - 1) :
                   (\E k \in 1..Len(ncalls) : IsPeerDeleteOf(ncalls[k], i))
                       <=> i \in Desired..(P - 1)

\* C11, amended: a pass that converges to D variants issues a delete of the
\* stateful set and of the service of every index D..MAX_CERAMICS-1, whatever
\* the count P was, and of no index below D; of the objects in the store this
\* removes exactly those at the indices D..P-1; and every delete is issued
\* before any config map, service or stateful set of a variant is applied.
C11_StaleCleanup ==
    /\ DeletesJustDone =>
        /\ \A i \in 0..(MAX_CERAMICS - 1) :
               /\ (\E k \in 1..Len(ncalls) :
                       ncalls[k] = NetDelete("StatefulSet", PeerSetName(i)))
                   <=> i >= Desired
               /\ (\E k \in 1..Len(ncalls) :
                       ncalls[k] = NetDelete("Service", PeerSetName(i)))
                   <=> i >= Desired
        /\ store \cap AllPeerObjs
             = (nstart.objects \cap AllPeerObjs) \ PeerObjsFrom(Desired, MAX_CERAMICS - 1)
        /\ \A P \in 1..MAX_CERAMICS :
               StartedWith(P) /\ Desired < P
                   => (nstart.objects \ store) = PeerObjsFrom(Desired, P - 1)
    /\ AllBefore(IsPeerDelete, IsPeerApply)

\* A pass that started with two peer object sets and converges to one has
\* deleted and then applied.
C11_Witness ==
    /\ npc.phase = "pods"
    /\ StartedWith(2)
    /\ Desired = 1
    /\ Issues(IsPeerDelete) /\ Issues(IsPeerApply)

----------------------------------------------------------------------------
(* C12: resolution of the admin secret *)

IsAdminLookup(c) == c.op = "get" /\ c.kind = "Secret" /\ c.name = "ceramic-admin"
IsSourceLookup(c) == c.op = "get" /\ c.kind = "Secret" /\ c.name = "private-key"
IsAdminCreate(c) == c.op = "create" /\ c.kind = "Secret" /\ c.name = "ceramic-admin"
\* The lookup was answered, with the secret or without.
Answered(P(_), found) ==
    \E i \in 1..Len(ncalls) :
        P(ncalls[i]) /\ ncalls[i].ok /\ ncalls[i].found = found
SourceConfigured == network.private_key_secret # None
\* The pass is past the resolution of the admin secret, or has ended.
ResolutionOver == npc.phase \notin {"namespace", "cas", "admin_secret"}

\* C12: the existing admin secret is looked up first; when it exists neither
\* a source lookup nor a create is issued; when it is absent and a source is
\* configured the source is looked up and, when found, the secret is created;
\* when the configured source is missing the pass stops with no further store
\* call; when it is absent and no source is configured the secret is created;
\* a pass issues at most one create of the secret.
C12_AdminSecretResolution ==
    LET admin == Pos(IsAdminLookup)
        source == Pos(IsSourceLookup)
        create == Pos(IsAdminCreate)
        Found(at, found) == \E i \in at : ncalls[i].ok /\ ncalls[i].found = found
    IN  /\ Before(admin, source) /\ Before(admin, create) /\ Before(source, create)
        /\ source # {} \/ create # {} => admin # {}
        /\ Found(admin, TRUE) => source = {} /\ create = {}
        /\ Found(admin, FALSE) /\ SourceConfigured =>
               /\ ResolutionOver => source # {}
               /\ create # {} => Found(source, TRUE)
               /\ Found(source, TRUE) /\ ResolutionOver => create # {}
               /\ Found(source, FALSE) =>
                      /\ create = {}
                      /\ Len(ncalls) \in source
                      /\ npc = NetDone /\ nresult = NetAbandoned
        /\ Found(admin, FALSE) /\ ~SourceConfigured =>
               /\ source = {}
               /\ ResolutionOver => create # {}
        /\ Cardinality(create) <= 1

\* A pass found neither the admin secret nor its configured source and stopped.
C12_Witness ==
    /\ npc = NetDone
    /\ Answered(IsAdminLookup, FALSE)
    /\ Answered(IsSourceLookup, FALSE)
    /\ nresult = NetAbandoned

----------------------------------------------------------------------------
(* C13: time to live *)

IsNetworkDelete(c) == c.op = "delete" /\ c.kind = "Network"
PassStarted == npc # NetIdle
\* The network of the current pass had outlived its time to live when the
\* pass started; had not yet reached it, or has none.
Outlived ==
    network.ttl_seconds # None /\ nstart.age > network.ttl_seconds[1]
NotYetDue ==
    network.ttl_seconds = None \/ nstart.age < network.ttl_seconds[1]

\* C13: a pass for a network whose time to live has expired issues the
\* deletion of the network and no other call; a pass before the expiry, or
\* for a network without time to live, never issues the deletion.
C13_TtlExpiry ==
    /\ PassStarted /\ Outlived =>
           /\ npc = NetDone
           /\ Len(ncalls) = 1
           /\ IsNetworkDelete(ncalls[1])
    /\ PassStarted /\ NotYetDue => NoneIssued(IsNetworkDelete)
    /\ Issues(IsNetworkDelete) => Len(ncalls) = 1

\* A pass found the network expired and deleted it.
C13_Witness ==
    /\ npc = NetDone
    /\ Outlived
    /\ ncalls = <<NetDelete("Network", "test")>>
    /\ Obj("Network", "test") \notin store

----------------------------------------------------------------------------
(* C15: the order of the calls of a converging pass *)

IsNamespaceApply(c) == c.op = "apply" /\ c.kind = "Namespace"
IsPeerConfigMapApply(c) == IsPeerApply(c) /\ c.kind = "ConfigMap"
IsPodStatus(c) == c.op = "get" /\ c.kind = "Pod"
IsRegistryWrite(c) ==
    c.op = "apply" /\ c.kind = "ConfigMap" /\ c.name = "keramik-peers"
IsBootstrapApply(c) == c.op = "apply" /\ c.kind = "Job"
IsNetStatusPatch(c) == c.op = "patch_status"
\* A pass that converges: it has issued calls, and not the network's deletion.
Converging == ncalls # <<>> /\ NoneIssued(IsNetworkDelete)

\* The call before the applies of the variant of index i, which has no config
\* map, is no apply of a variant (i = 0) or the stateful set of the variant
\* before it.
FirstOfVariant(k, i) ==
    /\ network.ceramics[i + 1].ipfs = "Rust"
    /\ network.ceramics[i + 1].init_config_map # "ceramic-init"
    /\ IF i = 0 THEN ~IsPeerApply(ncalls[k - 1])
       ELSE ncalls[k - 1] = NetApply("StatefulSet", PeerSetName(i - 1))

\* The applies of every variant come as config maps, service, stateful set:
\* the service directly after a config map of the variant, or first when the
\* variant has none; the stateful set directly after the service of the same
\* variant.
VariantsInOrder ==
    \A k \in 1..Len(ncalls) :
        /\ ncalls[k].op = "apply" /\ ncalls[k].kind = "Service" /\ ncalls[k].ok
           /\ ncalls[k].name \in PeerSetNames =>
               /\ k > 1
               /\ \/ IsPeerConfigMapApply(ncalls[k - 1])
                  \/ \E i \in 0..(Desired - 1) :
                        ncalls[k].name = PeerSetName(i) /\ FirstOfVariant(k, i)
        /\ ncalls[k].op = "apply" /\ ncalls[k].kind = "StatefulSet"
           /\ ncalls[k].name \in PeerSetNames =>
               k > 1 /\ ncalls[k - 1] = NetApply("Service", ncalls[k].name)
        /\ IsPeerConfigMapApply(ncalls[k]) /\ ncalls[k].ok /\ k < Len(ncalls) =>
               \/ IsPeerConfigMapApply(ncalls[k + 1])
               \/ ncalls[k + 1].op = "apply" /\ ncalls[k + 1].kind = "Service"
                  /\ ncalls[k + 1].name \in PeerSetNames

\* C15: in a converging pass the namespace apply is the first store call; the
\* config maps, the service and the stateful set of every variant are applied
\* in that order and before any pod status is fetched; the peer registry is
\* written after every pod status fetch and before the bootstrap job is
\* applied; the status patch is the last call and is issued only when every
\* earlier call succeeded.
C15_PassOrder ==
    LET variants == Pos(IsPeerApply)
        pods == Pos(IsPodStatus)
        registry == Pos(IsRegistryWrite)
        bootstrap == Pos(IsBootstrapApply)
        patch == Pos(IsNetStatusPatch)
    IN  Converging =>
            /\ IsNamespaceApply(ncalls[1])
            /\ VariantsInOrder
            /\ Before(variants, pods) /\ Before(pods, registry)
            /\ Before(variants, registry) /\ Before(registry, bootstrap)
            /\ bootstrap # {} => registry # {}
            /\ patch # {} =>
                   /\ patch = {Len(ncalls)}
                   /\ \A k \in 1..(Len(ncalls) - 1) : ncalls[k].ok
                   /\ registry # {}

\* A pass over two variants, one of them with Go IPFS, fetched a pod status,
\* applied the bootstrap job and patched the status.
C15_Witness ==
    /\ npc = NetDone
    /\ nresult = NetOk
    /\ Desired = 2
    /\ \E i \in 1..2 : network.ceramics[i].ipfs = "Go"
    /\ Issues(IsPodStatus)
    /\ Issues(IsBootstrapApply)
    /\ Issues(IsNetStatusPatch)

----------------------------------------------------------------------------
(* Repeated passes over an unchanged resource (IdemSpec).                  *)
(*                                                                         *)
(* Either loop runs pass after pass.  The simulation loop is Spec: a pass  *)
(* that reads what the completed pass before it read is picked out by      *)
(* SameReadsAsPrev.  The network loop runs its passes for a network the    *)
(* user does not edit, in a store that only the passes write: the stub     *)
(* serves every pass the requests of one script (whether the CAS block is  *)
(* run, the requests about the bootstrap job and their answers), the admin *)
(* secret is looked up in the store, and time goes by between the passes.  *)

\* What the stub of a network serves in every pass: the CAS block or not,
\* and the requests about the bootstrap job.
Scripts ==
    [cas : BOOLEAN, bootstrap : SeqsUpTo(BootstrapRequests, MaxBootstrapRequests)]

IsMutating(c) == c.op \in {"apply", "create", "delete", "patch_status"}
Request(c) == [c EXCEPT !.ok = TRUE]
\* The mutating requests among the calls cs.
MutatingRequests(cs) ==
    {Request(cs[i]) : i \in {j \in 1..Len(cs) : IsMutating(cs[j])}}

IdemNetInit ==
    /\ network \in Networks
    /\ store \in {{NetworkObj}, {NetworkObj, AdminSecretObj}}
    /\ npc = NetIdle
    /\ ncalls = <<>>
    /\ nresult = [ret |-> "none"]
    /\ nstart = [objects |-> {}, age |-> 0]
    /\ rerun \in [script : Scripts, prev : {None}]
    /\ SimAtRest /\ RpcAtRest /\ ResAtRest
    /\ BldAtRest /\ NameAtRest /\ JobAtRest
    /\ SeedAtRest /\ IsoAtRest

IdemInit == Init \/ IdemNetInit

\* The request just served is the one the script has at this place: the CAS
\* block starts with the lookup of the postgres secret, and the pass ends
\* with the status patch once the bootstrap requests of the script are served.
Scripted ==
    LET last == ncalls'[Len(ncalls')]
    IN  /\ npc = NetAt("cas", 0) =>
              (rerun.script.cas <=> last.name = POSTGRES_AUTH_SECRET_NAME)
        /\ npc.phase = "bootstrap" =>
              IF npc.k < Len(rerun.script.bootstrap)
              THEN Request(last) = rerun.script.bootstrap[npc.k + 1]
              ELSE last.op = "patch_status"

\* A pass starts for the network as it is: the user has not edited it.
IdemReconcile ==
    /\ NetReconcile
    /\ network' = network
    /\ UNCHANGED rerun

\* The next request of the pass, as the script has it.
IdemPass ==
    /\ \/ ApplyNamespace
       \/ ApplyCas
       \/ AdminSecret
       \/ DeleteCeramics
       \/ ApplyCeramics
       \/ PodStatus
       \/ ApplyPeersConfigMap
       \/ ApplyBootstrapJob
       \/ NetPatchStatus
    /\ Scripted
    /\ UNCHANGED rerun

\* The pass has returned; of a pass that ran to completion the mutating
\* requests are remembered.
IdemReturn ==
    /\ NetReturn
    /\ rerun' = [rerun EXCEPT !.prev = IF nresult = NetOk
                                       THEN Some(MutatingRequests(ncalls))
                                       ELSE None]

IdemNext ==
    \/ pc # None /\ Next
    \/ npc # None /\ IdemReconcile /\ UNCHANGED <<simvars, rpcvars, resvars, bldvars, namevars, jobvars, seedvars, isovars>>
    \/ npc # None /\ IdemPass /\ UNCHANGED <<simvars, rpcvars, resvars, bldvars, namevars, jobvars, seedvars, isovars>>
    \/ npc # None /\ IdemReturn /\ UNCHANGED <<simvars, rpcvars, resvars, bldvars, namevars, jobvars, seedvars, isovars>>

IdemSpec == IdemInit /\ [][IdemNext]_vars

----------------------------------------------------------------------------
(* C10: idempotence of reconciliation *)

\* A pass of the network loop came before that ran to completion; since
\* then neither the network nor the store has changed.
AfterCompletedPass == rerun.prev # None

DeletesNetwork(c) == c.op = "delete" /\ c.kind = "Network"

\* Every mutating request of the pass is one of the completed pass before it.
NothingNew == MutatingRequests(ncalls) \subseteq rerun.prev[1]

\* C10: when a pass has run to completion and neither the declared spec nor
\* the store has changed, a second pass issues no mutating store call
\* (apply, delete, status patch) that the first pass did not issue, in the
\* simulation loop and in the network loop.  A network that has outlived its
\* time to live since the first pass is deleted by the second.
C10_Idempotence ==
    /\ pc # None => SimIdempotent
    /\ npc # None => (AfterCompletedPass => NothingNew)

\* C10, amended: the second pass issues no mutating store call that the
\* first did not issue, unless the network has reached the end of its time to
\* live in between: then the deletion of the network is the one call of the
\* second pass.
C10_IdempotentUntilExpiry ==
    /\ pc # None => SimIdempotent
    /\ npc # None =>
          (AfterCompletedPass =>
              IF Issues(DeletesNetwork)
              THEN /\ MayBeExpired(network, nstart.age)
                   /\ Len(ncalls) = 1
              ELSE NothingNew)

\* A second pass of the network loop has run to completion after a first
\* one that created the admin secret: it has applied the peer objects and
\* patched the status again and has not created the secret again.
C10_Witness ==
    /\ npc = NetDone
    /\ nresult = NetOk
    /\ AfterCompletedPass
    /\ NetCall("create", "Secret", ADMIN_SECRET_NAME) \in rerun.prev[1]
    /\ MutatingRequests(ncalls) # {}
    /\ MutatingRequests(ncalls) \subseteq rerun.prev[1]
    /\ MutatingRequests(ncalls) # rerun.prev[1]
    /\ Issues(IsNetStatusPatch)

----------------------------------------------------------------------------
(* The resolution of variant specs into configs (network/ceramic.rs).      *)

\* Greatest weight a variant spec gives.
MaxWeight == 2

DB_TYPE_POSTGRES == "postgres"

Limits(cpu, memory, storage) == [cpu |-> cpu, memory |-> memory, storage |-> storage]

\* ResourceLimitsConfig::from_spec: every limit the spec leaves out is the
\* default's.
ResourceLimitsConfig_from_spec(spec, default) ==
    IF spec = None THEN default
    ELSE [cpu |-> IF spec[1].cpu = None THEN default.cpu ELSE spec[1].cpu[1],
          memory |-> IF spec[1].memory = None THEN default.memory ELSE spec[1].memory[1],
          storage |-> IF spec[1].storage = None THEN default.storage ELSE spec[1].storage[1]]

\* Option::unwrap_or
UnwrapOr(o, d) == IF o = None THEN d ELSE o[1]

RustIpfsConfig_default ==
    [kind |-> "Rust",
     image |-> "public.ecr.aws/r5b3e0r5/3box/ceramic-one:latest",
     image_pull_policy |-> "Always",
     resource_limits |-> Limits("250m", "512Mi", "1Gi"),
     rust_log |-> "info,ceramic_one=debug,tracing_actix_web=debug,quinn_proto=error",
     env |-> None]

RustIpfsConfig_from(value) ==
    [kind |-> "Rust",
     image |-> UnwrapOr(value.image, RustIpfsConfig_default.image),
     image_pull_policy |->
        UnwrapOr(value.image_pull_policy, RustIpfsConfig_default.image_pull_policy),
     resource_limits |->
        ResourceLimitsConfig_from_spec(value.resource_limits,
                                       RustIpfsConfig_default.resource_limits),
     rust_log |-> UnwrapOr(value.rust_log, RustIpfsConfig_default.rust_log),
     env |-> value.env]

GoIpfsConfig_default ==
    [kind |-> "Go",
     image |-> "ipfs/kubo:v0.19.1@sha256:c4527752a2130f55090be89ade8dde8f8a5328ec72570676b90f66e2cabf827d",
     image_pull_policy |-> "IfNotPresent",
     resource_limits |-> Limits("1", "2Gi", "2Gi"),
     commands |-> <<>>]

GoIpfsConfig_from(value) ==
    [kind |-> "Go",
     image |-> UnwrapOr(value.image, GoIpfsConfig_default.image),
     image_pull_policy |->
        UnwrapOr(value.image_pull_policy, GoIpfsConfig_default.image_pull_policy),
     resource_limits |->
        ResourceLimitsConfig_from_spec(value.resource_limits,
                                       GoIpfsConfig_default.resource_limits),
     commands |-> UnwrapOr(value.commands, GoIpfsConfig_default.commands)]

IpfsConfig_default == RustIpfsConfig_default

IpfsConfig_from(value) ==
    IF value.kind = "Rust" THEN RustIpfsConfig_from(value) ELSE GoIpfsConfig_from(value)

CeramicConfig_default ==
    [weight |-> 1,
     init_config_map |-> INIT_CONFIG_MAP_NAME,
     image |-> "ceramicnetwork/composedb:latest",
     image_pull_policy |-> "Always",
     ipfs |-> IpfsConfig_default,
     resource_limits |-> Limits("1", "1Gi", "2Gi"),
     db_type |-> DB_TYPE_POSTGRES,
     postgres |-> [db_name |-> None, user_name |-> None, password |-> None],
     enable_historical_sync |-> TRUE]

\* The outcome of a resolution that panics (unwrap of None).
ResolutionPanic == [panic |-> TRUE]
IsPanic(outcome) == DOMAIN outcome = {"panic"}

\* From<CeramicSpec> for CeramicConfig: every field is the spec's or the
\* default's; `value.ceramic_postgres.clone().unwrap()` panics on None.
CeramicConfig_from(value) ==
    IF value.ceramic_postgres = None THEN ResolutionPanic
    ELSE
    [weight |-> UnwrapOr(value.weight, CeramicConfig_default.weight),
     init_config_map |->
        UnwrapOr(value.init_config_map, CeramicConfig_default.init_config_map),
     image |-> UnwrapOr(value.image, CeramicConfig_default.image),
     image_pull_policy |->
        UnwrapOr(value.image_pull_policy, CeramicConfig_default.image_pull_policy),
     ipfs |-> IF value.ipfs = None THEN CeramicConfig_default.ipfs
              ELSE IpfsConfig_from(value.ipfs[1]),
     resource_limits |->
        ResourceLimitsConfig_from_spec(value.resource_limits,
                                       CeramicConfig_default.resource_limits),
     db_type |-> UnwrapOr(value.db_type, CeramicConfig_default.db_type),
     postgres |-> [db_name |-> value.ceramic_postgres[1].db_name,
                   user_name |-> value.ceramic_postgres[1].user_name,
                   password |-> value.ceramic_postgres[1].password],
     enable_historical_sync |->
        UnwrapOr(value.enable_historical_sync,
                 CeramicConfig_default.enable_historical_sync)]

\* From<Vec<CeramicSpec>> for CeramicConfigs (a wrapper of the list of
\* configs): one default config for the empty list, else the resolution of
\* every spec in order; a panic of one of them is the panic of the whole.
CeramicConfigs_from(value) ==
    IF value = <<>> THEN [configs |-> <<CeramicConfig_default>>]
    ELSE IF \E i \in 1..Len(value) : IsPanic(CeramicConfig_from(value[i]))
    THEN ResolutionPanic
    ELSE [configs |-> [i \in 1..Len(value) |-> CeramicConfig_from(value[i])]]

\* CeramicSpec::default(): every field absent.
AbsentSpec ==
    [weight |-> None, init_config_map |-> None, image |-> None,
     image_pull_policy |-> None, ipfs |-> None, resource_limits |-> None,
     db_type |-> None, ceramic_postgres |-> None, enable_historical_sync |-> None]

Credentials ==
    [db_name |-> Some("ceramic"), user_name |-> Some("ceramic"),
     password |-> Some("password")]

\* The variant specs of the networks resolved here.
VariantSpecs ==
    {[AbsentSpec EXCEPT !.weight = w, !.image = im, !.ceramic_postgres = pg] :
        w \in {None} \cup {Some(n) : n \in 0..MaxWeight},
        im \in {None, Some("composedb:custom")},
        pg \in {None, Some(Credentials)}}

\* NetworkSpec, as far as resolution reads it.
NetworkFragments ==
    [ceramic : SeqsUpTo(VariantSpecs, MaxVariants)]

ResInit ==
    /\ fragment \in NetworkFragments
    /\ resolved = [stage |-> "spec"]
    /\ SimAtRest /\ NetAtRest /\ RpcAtRest
    /\ BldAtRest /\ NameAtRest /\ JobAtRest
    /\ SeedAtRest /\ IsoAtRest /\ RerunAtRest

\* The pass resolves the variant list of the network.
Resolve ==
    /\ resolved.stage = "spec"
    /\ resolved' = [stage |-> "configs", outcome |-> CeramicConfigs_from(fragment.ceramic)]
    /\ UNCHANGED fragment

ResNext ==
    \/ Resolve /\ UNCHANGED <<simvars, netvars, rpcvars, bldvars, namevars, jobvars, seedvars, isovars, rerunvars>>

ResSpec == ResInit /\ [][ResNext]_vars

----------------------------------------------------------------------------
(* C20: resolution of the variant list *)

\* C20: an empty list of variant specs resolves to exactly one config, the
\* default one; a list of n > 0 variant specs resolves to exactly n configs,
\* the i-th of them the resolution of the i-th spec.
C20_VariantListResolution ==
    resolved.stage = "configs" =>
        /\ ~IsPanic(resolved.outcome)
        /\ IF fragment.ceramic = <<>>
           THEN resolved.outcome.configs = <<CeramicConfig_default>>
           ELSE /\ Len(resolved.outcome.configs) = Len(fragment.ceramic)
                /\ \A i \in 1..Len(fragment.ceramic) :
                       resolved.outcome.configs[i] = CeramicConfig_from(fragment.ceramic[i])

----------------------------------------------------------------------------
(* The IPFS RPC client (network/ipfs_rpc.rs).                              *)
(*                                                                         *)
(* A multiaddr is the sequence of its protocol segments; its text is what  *)
(* Display writes and what parse reads.                                    *)

\* Most addresses a peer reports.
MaxAddrs == 2
\* Most elements of the Peers list of a peer.
MaxConnected == 2

\* Ipv4Addr::is_loopback: 127.0.0.0/8.
is_loopback(ip) == ip[1] = 127

\* Display for Protocol.
ProtocolText(p) ==
    CASE p.proto = "ip4" ->
            "/ip4/" \o ToString(p.ip[1]) \o "." \o ToString(p.ip[2]) \o "."
                    \o ToString(p.ip[3]) \o "." \o ToString(p.ip[4])
      [] p.proto = "ip6" -> "/ip6/" \o p.host
      [] p.proto = "tcp" -> "/tcp/" \o ToString(p.port)
      [] p.proto = "udp" -> "/udp/" \o ToString(p.port)
      [] p.proto = "quic" -> "/quic"
      [] p.proto = "p2p" -> "/p2p/" \o p.id

\* Display for Multiaddr.
RECURSIVE to_string(_)
to_string(addr) ==
    IF addr = <<>> THEN "" ELSE ProtocolText(Head(addr)) \o to_string(Tail(addr))

\* The multiaddrs the peers of the model report.
Multiaddrs ==
    {<<[proto |-> "ip4", ip |-> <<127, 0, 0, 1>>], [proto |-> "tcp", port |-> 4001]>>,
     <<[proto |-> "ip4", ip |-> <<10, 0, 0, 1>>], [proto |-> "tcp", port |-> 4001]>>,
     <<[proto |-> "ip4", ip |-> <<10, 0, 0, 1>>], [proto |-> "udp", port |-> 4001],
       [proto |-> "quic"]>>,
     <<[proto |-> "ip4", ip |-> <<10, 0, 0, 1>>]>>,
     <<[proto |-> "ip6", host |-> "::1"], [proto |-> "tcp", port |-> 4001]>>}

\* The address strings of a response: the texts of those, and one that is no
\* multiaddr.
AddressTexts == {to_string(a) : a \in Multiaddrs} \cup {"not-a-multiaddr"}

\* str::parse::<Multiaddr>().ok()
parse(text) ==
    IF \E a \in Multiaddrs : to_string(a) = text
    THEN Some(CHOOSE a \in Multiaddrs : to_string(a) = text)
    ELSE None

\* The peer ids of a response: a base58 multihash, and a string that is not
\* base58.
ValidPeerIds == {"QmYyQSo1c1Ym7orWxLYvCrM2EmxFTANf8wXmmE7DWjhx5N"}
PeerIds == ValidPeerIds \cup {"0OIl"}

\* Protocol::P2p(Multihash::from_bytes(Base58Btc.decode(id)?)?): the identity
\* segment, which Display writes as the base58 text again.
p2p_proto(id) == IF id \in ValidPeerIds THEN Some([proto |-> "p2p", id |-> id]) ELSE None

\* The elements of a Peers list: objects of any content.
PeerElements == {[Peer |-> "12D3KooWA"], [Peer |-> "12D3KooWB", Addr |-> "/ip4/10.0.0.2/tcp/4001"]}

\* The JSON objects of a body: an error envelope, an identity, a list of
\* peers (Peers null, an array, or missing).
Bodies ==
    {[Message |-> "context deadline exceeded"]}
    \cup [ID : PeerIds, Addresses : SeqsUpTo(AddressTexts, MaxAddrs)]
    \cup {[Peers |-> None]}
    \cup {[Peers |-> Some(l)] : l \in SeqsUpTo(PeerElements, MaxConnected)}
    \cup {[Strings |-> <<>>]}

\* What comes back from the POST: nothing when the request could not be sent,
\* else a status and a body, which is a JSON object or not JSON at all.
Responses ==
    {[sent |-> FALSE, success |-> FALSE, body |-> None]}
    \cup [sent : {TRUE}, success : BOOLEAN, body : {None} \cup {Some(b) : b \in Bodies}]

IPFS_RPC_ADDR == "http://ceramic-0-0.ceramic-0.keramik-test.svc.cluster.local:5001"

RpcOk(v) == [ok |-> TRUE, value |-> v]
RpcErr(e) == [ok |-> FALSE, error |-> e]
\* resp.json::<ErrorResponse>()
ErrorResponse(body) ==
    IF body = None THEN None
    ELSE IF "Message" \in DOMAIN body[1] THEN Some([message |-> body[1].Message])
    ELSE None

\* The failure of a call whose response has no success status.
Bail(body) ==
    IF ErrorResponse(body) = None THEN RpcErr("error decoding response body")
    ELSE RpcErr("peer id failed: " \o ErrorResponse(body)[1].message)

\* resp.json::<Response>() of peer_info.
IdResponse(body) ==
    IF body = None THEN None
    ELSE IF {"ID", "Addresses"} \subseteq DOMAIN body[1]
    THEN Some([id |-> body[1].ID, addresses |-> body[1].Addresses])
    ELSE None

\* filter_map(|addr| addr.parse::<Multiaddr>().ok())
RECURSIVE Parsed(_)
Parsed(texts) ==
    IF texts = <<>> THEN <<>>
    ELSE (IF parse(Head(texts)) = None THEN <<>> ELSE <<parse(Head(texts))[1]>>)
         \o Parsed(Tail(texts))

\* The filter of peer_info: some segment is a non loopback ip4 address.
Retained(addr) ==
    \E i \in 1..Len(addr) : addr[i].proto = "ip4" /\ ~is_loopback(addr[i].ip)

\* The addresses peer_info keeps, each with the identity segment pushed.
p2p_addrs(addresses, proto) ==
    LET kept == SelectSeq(Parsed(addresses), Retained)
    IN  [i \in 1..Len(kept) |-> to_string(Append(kept[i], proto))]

\* The end of peer_info: the peer record, or the failure of a peer without
\* addresses.
PeerInfoResult(id, ipfs_rpc_addr, addrs) ==
    IF addrs # <<>>
    THEN RpcOk([peer_id |-> id, ipfs_rpc_addr |-> ipfs_rpc_addr, p2p_addrs |-> addrs])
    ELSE RpcErr("peer " \o ipfs_rpc_addr \o " does not have any valid non loopback addresses")

peer_info(ipfs_rpc_addr, response) ==
    IF ~response.sent THEN RpcErr("error sending request")
    ELSE IF ~response.success THEN Bail(response.body)
    ELSE IF IdResponse(response.body) = None THEN RpcErr("error decoding response body")
    ELSE LET data == IdResponse(response.body)[1]
         IN  IF p2p_proto(data.id) = None THEN RpcErr("invalid peer id")
             ELSE PeerInfoResult(data.id, ipfs_rpc_addr,
                                 p2p_addrs(data.addresses, p2p_proto(data.id)[1]))

\* resp.json::<Response>() of peer_status: a missing Peers is None.
PeersResponse(body) ==
    IF body = None THEN None
    ELSE Some([peers |-> IF "Peers" \in DOMAIN body[1] THEN body[1].Peers ELSE None])

\* Mutant: only the elements that carry an address are counted.
connected_peers_withaddr(peers) ==
    IF peers = None THEN 0
    ELSE Len(SelectSeq(peers[1], LAMBDA e : "Addr" \in DOMAIN e))

\* data.peers.unwrap_or_default().len()
connected_peers(peers) == IF peers = None THEN 0 ELSE Len(peers[1])

\* Mutant: the status of the response is not looked at.
peer_status_anystatus(ipfs_rpc_addr, response) ==
    IF ~response.sent THEN RpcErr("error sending request")
    ELSE IF PeersResponse(response.body) = None THEN RpcErr("error decoding response body")
    ELSE RpcOk([connected_peers |->
                    connected_peers(PeersResponse(response.body)[1].peers)])

peer_status(ipfs_rpc_addr, response) ==
    IF ~response.sent THEN RpcErr("error sending request")
    ELSE IF ~response.success THEN Bail(response.body)
    ELSE IF PeersResponse(response.body) = None THEN RpcErr("error decoding response body")
    ELSE RpcOk([connected_peers |->
                    connected_peers(PeersResponse(response.body)[1].peers)])

RpcInit ==
    /\ resp \in Responses
    /\ reply = [op |-> "none"]
    /\ SimAtRest /\ NetAtRest /\ ResAtRest
    /\ BldAtRest /\ NameAtRest /\ JobAtRest
    /\ SeedAtRest /\ IsoAtRest /\ RerunAtRest

\* A call of the client suspends twice: until the request is sent and the
\* head of the response is there (send().await), and until the body is read
\* and decoded (json().await).  A request that could not be sent ends the
\* call at the first.
Suspended(op, at) == [op |-> op, at |-> at]
Returned(op, ret) == [op |-> op, at |-> "done", ret |-> ret]

RpcCall(op, ret) ==
    \/ /\ reply.op = "none"
       /\ reply' = Suspended(op, "send")
    \/ /\ reply = Suspended(op, "send")
       /\ reply' = IF resp.sent THEN Suspended(op, "json") ELSE Returned(op, ret)
    \/ /\ reply = Suspended(op, "json")
       /\ reply' = Returned(op, ret)

PeerInfo ==
    /\ RpcCall("peer_info", peer_info(IPFS_RPC_ADDR, resp))
    /\ UNCHANGED resp

PeerStatus ==
    /\ RpcCall("peer_status", peer_status(IPFS_RPC_ADDR, resp))
    /\ UNCHANGED resp

RpcNext ==
    \/ PeerInfo /\ UNCHANGED <<simvars, netvars, resvars, bldvars, namevars, jobvars, seedvars, isovars, rerunvars>>
    \/ PeerStatus /\ UNCHANGED <<simvars, netvars, resvars, bldvars, namevars, jobvars, seedvars, isovars, rerunvars>>

RpcSpec == RpcInit /\ [][RpcNext]_vars

----------------------------------------------------------------------------
(* Properties of the IPFS RPC client.                                      *)

\* The identity call got a success response that decodes, with an id that is
\* a peer id.
InfoAnswered ==
    /\ reply.op = "peer_info" /\ reply.at = "done"
    /\ resp.sent /\ resp.success /\ resp.body # None
    /\ {"ID", "Addresses"} \subseteq DOMAIN resp.body[1]
    /\ resp.body[1].ID \in ValidPeerIds

\* The status call got a success response that is JSON.
StatusAnswered ==
    /\ reply.op = "peer_status" /\ reply.at = "done"
    /\ resp.sent /\ resp.success /\ resp.body # None

\* A reported address with a non loopback IPv4 segment and a tcp or quic
\* segment.
RoutableWithTransport(text) ==
    /\ parse(text) # None
    /\ \E i \in 1..Len(parse(text)[1]) :
           /\ parse(text)[1][i].proto = "ip4"
           /\ parse(text)[1][i].ip[1] # 127
    /\ \E i \in 1..Len(parse(text)[1]) : parse(text)[1][i].proto \in {"tcp", "quic"}

\* The reported addresses that are routable and carry a transport, in the
\* reported order, each followed by the identity segment.
RoutableReported ==
    LET kept == SelectSeq(resp.body[1].Addresses, RoutableWithTransport)
    IN  [i \in 1..Len(kept) |-> kept[i] \o "/p2p/" \o resp.body[1].ID]

NoValidAddress ==
    RpcErr("peer " \o IPFS_RPC_ADDR \o " does not have any valid non loopback addresses")

\* C16: the addresses of the peer record of peer_info are exactly the
\* reported addresses that have a non loopback IPv4 segment and a tcp or quic
\* segment, in the reported order, each with the identity segment appended.
C16_AddressFilter ==
    (InfoAnswered /\ reply.ret.ok) => reply.ret.value.p2p_addrs = RoutableReported

\* C17: peer_info fails with the 'no valid address' error exactly when no
\* reported address is routable with a transport; only loopback addresses or
\* no address at all fail so; one loopback and one routable tcp address give
\* a record with exactly one address, which ends in the identity segment.
C17_NoValidAddress ==
    InfoAnswered =>
        /\ (reply.ret = NoValidAddress) <=> (RoutableReported = <<>>)
        /\ ~reply.ret.ok <=> (RoutableReported = <<>>)
        /\ resp.body[1].Addresses \in {<<>>, <<"/ip4/127.0.0.1/tcp/4001">>,
                                       <<"/ip4/127.0.0.1/tcp/4001", "/ip4/127.0.0.1/tcp/4001">>}
               => reply.ret = NoValidAddress
        /\ resp.body[1].Addresses = <<"/ip4/127.0.0.1/tcp/4001", "/ip4/10.0.0.1/tcp/4001">>
               => /\ reply.ret.ok
                  /\ reply.ret.value.p2p_addrs =
                         <<"/ip4/10.0.0.1/tcp/4001/p2p/" \o resp.body[1].ID>>

\* C18: the connected-peer count of peer_status is the length of the Peers
\* list of the response, whatever its elements are, and 0 when Peers is null
\* or missing.
C18_ConnectedPeers ==
    StatusAnswered =>
        /\ reply.ret.ok
        /\ reply.ret.value.connected_peers =
               (IF "Peers" \in DOMAIN resp.body[1] /\ resp.body[1].Peers # None
                THEN Len(resp.body[1].Peers[1]) ELSE 0)

C18_Witness ==
    /\ StatusAnswered
    /\ "Peers" \in DOMAIN resp.body[1] /\ resp.body[1].Peers # None
    /\ Len(resp.body[1].Peers[1]) = 2
    /\ resp.body[1].Peers[1][1] # resp.body[1].Peers[1][2]
    /\ reply.ret.ok /\ reply.ret.value.connected_peers = 2

\* C19: a call of peer_info or peer_status whose response has no success
\* status fails, and when the response is an error envelope the text of the
\* error carries its Message.
C19_NonSuccess ==
    (reply.op # "none" /\ reply.at = "done" /\ resp.sent /\ ~resp.success) =>
        /\ ~reply.ret.ok
        /\ (resp.body # None /\ "Message" \in DOMAIN resp.body[1])
               => reply.ret.error = "peer id failed: " \o resp.body[1].Message

C19_Witness ==
    /\ reply.op = "peer_status" /\ reply.at = "done"
    /\ resp.sent /\ ~resp.success
    /\ resp.body = Some([Message |-> "context deadline exceeded"])
    /\ reply.ret = RpcErr("peer id failed: context deadline exceeded")

----------------------------------------------------------------------------
(* The building of the peer workload of one variant (network/ceramic.rs).  *)
(*                                                                         *)
(* An EnvVar is [name, value]; value is None for a variable whose value    *)
(* comes from a secret.  A HashMap is the set of its entries, and one      *)
(* iteration over it visits them in any order.                             *)

\* Most entries of the extra-env map of a Rust IPFS spec.
MaxExtraEnv == 2
\* Most times the same variant list is resolved, and its workload built.
MaxRuns == 2

CERAMIC_SERVICE_IPFS_PORT == 5001
CERAMIC_SERVICE_API_PORT == 7007
CERAMIC_POSTGRES_SERVICE_NAME == "ceramic-postgres"

\* NetworkConfig::default()
NetworkConfig_default ==
    [network_type |-> "local",
     pubsub_topic |-> "/ceramic/local-keramik",
     eth_rpc_url |-> "http://ganache:8545",
     cas_api_url |-> "http://cas:8081"]

\* The names of the variables of the model in ascending order of
\* String::cmp (byte-wise).
EnvNames ==
    << "CAS_API_URL",
       "CERAMIC_ADMIN_PRIVATE_KEY",
       "CERAMIC_CORS_ALLOWED_ORIGINS",
       "CERAMIC_IPFS_HOST",
       "CERAMIC_LOG_LEVEL",
       "CERAMIC_NETWORK",
       "CERAMIC_NETWORK_TOPIC",
       "CERAMIC_ONE_BIND_ADDRESS",
       "CERAMIC_ONE_KADEMLIA_PARALLELISM",
       "CERAMIC_ONE_KADEMLIA_REPLICATION",
       "CERAMIC_ONE_LOCAL_NETWORK_ID",
       "CERAMIC_ONE_METRICS",
       "CERAMIC_ONE_METRICS_BIND_ADDRESS",
       "CERAMIC_ONE_NETWORK",
       "CERAMIC_ONE_STORE_DIR",
       "CERAMIC_ONE_SWARM_ADDRESSES",
       "CERAMIC_STATE_STORE_PATH",
       "DB_CONNECTION_STRING",
       "DD_AGENT_HOST",
       "DD_PROFILING_ENABLED",
       "DD_RUNTIME_METRICS_ENABLED",
       "ENABLE_HISTORICAL_SYNC",
       "ETH_RPC_URL",
       "RUST_LOG",
       "SOME_ENV_VAR" >>

\* a.name.cmp(&b.name) is Less
NameLess(a, b) ==
    (CHOOSE i \in 1..Len(EnvNames) : EnvNames[i] = a.name)
        < (CHOOSE i \in 1..Len(EnvNames) : EnvNames[i] = b.name)

\* Vec::swap_remove: the element at pos is replaced by the last one.
swap_remove(env, pos) ==
    IF pos = Len(env) THEN SubSeq(env, 1, Len(env) - 1)
    ELSE [SubSeq(env, 1, Len(env) - 1) EXCEPT ![pos] = env[Len(env)]]

\* The loop over the extra env (lines 475-486), visiting `entries` in order:
\* the first variable of the same name is swap-removed, the entry is pushed.
RECURSIVE override(_, _)
override(env, entries) ==
    IF entries = <<>> THEN env
    ELSE LET key == Head(entries).name
             hits == {i \in 1..Len(env) : env[i].name = key}
             kept == IF hits = {} THEN env
                     ELSE swap_remove(env, CHOOSE i \in hits : \A j \in hits : i <= j)
         IN  override(Append(kept, [name |-> key, value |-> Some(Head(entries).value)]),
                      Tail(entries))

\* Mutant: the variables are left in the order the loop produced.
sort_by_name_unsorted(env) == env

\* env.sort_unstable_by(|a, b| a.name.cmp(&b.name))
RECURSIVE sort_by_name(_)
sort_by_name(env) ==
    IF env = <<>> THEN <<>>
    ELSE LET rest == sort_by_name(Tail(env))
         IN  SelectSeq(rest, LAMBDA w : NameLess(w, Head(env)))
                 \o <<Head(env)>>
                 \o SelectSeq(rest, LAMBDA w : ~NameLess(w, Head(env)))

\* Mutant: an extra entry is pushed without removing the synthesized variable
\* of the same name.
RustIpfsConfig_container_append(self, order) ==
    sort_by_name(
        << [name |-> "RUST_LOG", value |-> Some(self.rust_log)],
           [name |-> "CERAMIC_ONE_BIND_ADDRESS",
            value |-> Some("0.0.0.0:" \o ToString(CERAMIC_SERVICE_IPFS_PORT))],
           [name |-> "CERAMIC_ONE_METRICS", value |-> Some("true")],
           [name |-> "CERAMIC_ONE_METRICS_BIND_ADDRESS", value |-> Some("0.0.0.0:9465")],
           [name |-> "CERAMIC_ONE_SWARM_ADDRESSES", value |-> Some("/ip4/0.0.0.0/tcp/4001")],
           [name |-> "CERAMIC_ONE_STORE_DIR", value |-> Some("/data/ipfs")],
           [name |-> "CERAMIC_ONE_NETWORK", value |-> Some("local")],
           [name |-> "CERAMIC_ONE_LOCAL_NETWORK_ID", value |-> Some("0")],
           [name |-> "CERAMIC_ONE_KADEMLIA_REPLICATION", value |-> Some("6")],
           [name |-> "CERAMIC_ONE_KADEMLIA_PARALLELISM", value |-> Some("1")] >>
        \o [i \in 1..Len(order) |-> [name |-> order[i].name, value |-> Some(order[i].value)]])

\* RustIpfsConfig::container, the env of the container: the synthesized
\* variables, the extra env over them (`order` is the order in which the
\* HashMap yields its entries), sorted by name.
RustIpfsConfig_container(self, order) ==
    sort_by_name(override(
        << [name |-> "RUST_LOG", value |-> Some(self.rust_log)],
           [name |-> "CERAMIC_ONE_BIND_ADDRESS",
            value |-> Some("0.0.0.0:" \o ToString(CERAMIC_SERVICE_IPFS_PORT))],
           [name |-> "CERAMIC_ONE_METRICS", value |-> Some("true")],
           [name |-> "CERAMIC_ONE_METRICS_BIND_ADDRESS", value |-> Some("0.0.0.0:9465")],
           [name |-> "CERAMIC_ONE_SWARM_ADDRESSES", value |-> Some("/ip4/0.0.0.0/tcp/4001")],
           [name |-> "CERAMIC_ONE_STORE_DIR", value |-> Some("/data/ipfs")],
           [name |-> "CERAMIC_ONE_NETWORK", value |-> Some("local")],
           [name |-> "CERAMIC_ONE_LOCAL_NETWORK_ID", value |-> Some("0")],
           [name |-> "CERAMIC_ONE_KADEMLIA_REPLICATION", value |-> Some("6")],
           [name |-> "CERAMIC_ONE_KADEMLIA_PARALLELISM", value |-> Some("1")] >>,
        order))

\* stateful_set_spec, lines 640-643: the connection string; the unwrap of an
\* absent credential panics.
db_connection_string(c) ==
    IF c.db_type = DB_TYPE_POSTGRES
    THEN IF c.postgres.user_name = None \/ c.postgres.password = None
            \/ c.postgres.db_name = None
         THEN None
         ELSE Some("postgres://" \o c.postgres.user_name[1] \o ":"
                   \o c.postgres.password[1] \o "@" \o CERAMIC_POSTGRES_SERVICE_NAME
                   \o ":5432/" \o c.postgres.db_name[1])
    ELSE Some("sqlite:///ceramic-data/ceramic.db")

\* stateful_set_spec, lines 645-696: the env of the ceramic container.
ceramic_env(c, net_config) ==
    << [name |-> "CERAMIC_NETWORK", value |-> Some(net_config.network_type)],
       [name |-> "CERAMIC_NETWORK_TOPIC", value |-> Some(net_config.pubsub_topic)],
       [name |-> "ETH_RPC_URL", value |-> Some(net_config.eth_rpc_url)],
       [name |-> "CAS_API_URL", value |-> Some(net_config.cas_api_url)],
       [name |-> "CERAMIC_STATE_STORE_PATH", value |-> Some("/ceramic-data/statestore")],
       [name |-> "CERAMIC_IPFS_HOST",
        value |-> Some("http://localhost:" \o ToString(CERAMIC_SERVICE_IPFS_PORT))],
       [name |-> "CERAMIC_CORS_ALLOWED_ORIGINS", value |-> Some(".*")],
       [name |-> "CERAMIC_LOG_LEVEL", value |-> Some("2")],
       [name |-> "DB_CONNECTION_STRING", value |-> db_connection_string(c)],
       [name |-> "ENABLE_HISTORICAL_SYNC",
        value |-> Some(IF c.enable_historical_sync THEN "true" ELSE "false")] >>

\* The datadog settings of a network (DataDogSpec, spec.rs lines 182-192,
\* resolved): whether telemetry is collected and whether profiles are.
DataDogConfigs == [enabled : BOOLEAN, profiling_enabled : BOOLEAN]

\* DataDogConfig::inject_env: nothing when telemetry is not collected;
\* otherwise the variables of the agent are pushed after the variables
\* already there (the host of the agent comes from a field of the pod).
inject_env(dd, env) ==
    IF dd.enabled
    THEN env \o << [name |-> "DD_AGENT_HOST", value |-> None],
                   [name |-> "DD_RUNTIME_METRICS_ENABLED", value |-> Some("true")],
                   [name |-> "DD_PROFILING_ENABLED",
                    value |-> Some(IF dd.profiling_enabled THEN "true" ELSE "false")] >>
    ELSE env

\* stateful_set_spec: the env of the ceramic container, of the init container
\* and of the IPFS container (None: the Go container has no env).  The env
\* of the init container is the admin private key followed by a clone of the
\* env of the ceramic container taken (line 710) before the datadog
\* variables are injected into the latter (line 712).
stateful_set_spec(c, net_config, dd, order) ==
    IF db_connection_string(c) = None THEN ResolutionPanic
    ELSE [ceramic_env |-> inject_env(dd, ceramic_env(c, net_config)),
          init_env |-> <<[name |-> "CERAMIC_ADMIN_PRIVATE_KEY", value |-> None]>>
                          \o ceramic_env(c, net_config),
          ipfs_env |-> IF c.ipfs.kind = "Rust"
                       THEN Some(RustIpfsConfig_container(c.ipfs, order))
                       ELSE None]

\* The entries an extra-env map is made of.
ExtraEntries ==
    { [name |-> "RUST_LOG", value |-> "trace"],
      [name |-> "CERAMIC_ONE_NETWORK", value |-> "dev-unstable"],
      [name |-> "SOME_ENV_VAR", value |-> "SOME_ENV_VALUE"] }

\* The IPFS specs of the variants built here.
IpfsSpecs ==
    { [kind |-> "Go", image |-> None, image_pull_policy |-> None,
       resource_limits |-> None, commands |-> None] }
        \cup { [kind |-> "Rust", image |-> None, image_pull_policy |-> None,
                resource_limits |-> None, rust_log |-> None, env |-> e] :
                 e \in {None} \cup {Some(m) : m \in {s \in SUBSET ExtraEntries :
                                                       Cardinality(s) <= MaxExtraEnv}} }

\* The variant lists resolved and built here: the empty list and the lists
\* of one variant spec.
VariantLists ==
    {<<>>} \cup
    { << [weight |-> w, init_config_map |-> cm, image |-> im,
          image_pull_policy |-> pp, ipfs |-> ip, resource_limits |-> rl,
          db_type |-> db, ceramic_postgres |-> pg,
          enable_historical_sync |-> hs] >> :
        w \in {None, Some(2)},
        cm \in {None, Some("custom-init")},
        im \in {None, Some("composedb:custom")},
        pp \in {None, Some("IfNotPresent")},
        ip \in {None} \cup {Some(i) : i \in IpfsSpecs},
        rl \in {None, Some([cpu |-> Some("2"), memory |-> None, storage |-> None])},
        db \in {None, Some("sqlite"), Some(DB_TYPE_POSTGRES)},
        pg \in {None, Some(Credentials),
                Some([Credentials EXCEPT !.password = None]),
                Some([db_name |-> None, user_name |-> None, password |-> None])},
        hs \in {None, Some(FALSE)} }

\* The orders in which a HashMap of the entries `map` can yield them.
Orders(map) ==
    {s \in [1..Cardinality(map) -> map] : \A i, j \in DOMAIN s : s[i] = s[j] => i = j}

BldInit ==
    /\ ceramic \in VariantLists
    /\ datadog \in DataDogConfigs
    /\ cfg = <<>>
    /\ workload = <<>>
    /\ SimAtRest /\ NetAtRest /\ RpcAtRest /\ ResAtRest
    /\ NameAtRest /\ JobAtRest
    /\ SeedAtRest /\ IsoAtRest /\ RerunAtRest

\* A pass resolves the variant list.
BldResolve ==
    /\ Len(cfg) < MaxRuns
    /\ cfg' = Append(cfg, CeramicConfigs_from(ceramic))
    /\ UNCHANGED <<ceramic, datadog, workload>>

\* A pass builds the stateful set of the variant resolved last under the
\* datadog settings of the network; the extra-env map of a Rust IPFS config
\* yields its entries in some order.
BldBuild ==
    /\ cfg # <<>>
    /\ ~IsPanic(cfg[Len(cfg)])
    /\ Len(workload) < MaxRuns
    /\ LET c == cfg[Len(cfg)].configs[1]
           map == IF c.ipfs.kind = "Rust" /\ c.ipfs.env # None THEN c.ipfs.env[1] ELSE {}
       IN  \E order \in Orders(map) :
             workload' = Append(workload,
                                stateful_set_spec(c, NetworkConfig_default, datadog, order))
    /\ UNCHANGED <<ceramic, datadog, cfg>>

BldNext ==
    \/ BldResolve /\ UNCHANGED <<simvars, netvars, rpcvars, resvars, namevars, jobvars, seedvars, isovars, rerunvars>>
    \/ BldBuild /\ UNCHANGED <<simvars, netvars, rpcvars, resvars, namevars, jobvars, seedvars, isovars, rerunvars>>

BldSpec == BldInit /\ [][BldNext]_vars

----------------------------------------------------------------------------
(* C21: coalescing of the optional fields of a variant spec *)

\* C21: the resolution of a variant spec succeeds, and every field of the
\* result is the spec's value when the spec gives one and the default's when
\* it does not; the resolution of the spec with every field absent is the
\* default config.
C21_FieldCoalescing ==
    \A k \in 1..Len(cfg) :
        ceramic # <<>> =>
            /\ ~IsPanic(cfg[k])
            /\ LET v == ceramic[1]
                   c == cfg[k].configs[1]
                   d == CeramicConfig_default
               IN  /\ c.weight = IF v.weight = None THEN d.weight ELSE v.weight[1]
                   /\ c.init_config_map = IF v.init_config_map = None
                                          THEN d.init_config_map
                                          ELSE v.init_config_map[1]
                   /\ c.image = IF v.image = None THEN d.image ELSE v.image[1]
                   /\ c.image_pull_policy = IF v.image_pull_policy = None
                                            THEN d.image_pull_policy
                                            ELSE v.image_pull_policy[1]
                   /\ c.ipfs.kind = IF v.ipfs = None THEN d.ipfs.kind ELSE v.ipfs[1].kind
                   /\ v.ipfs = None => c.ipfs = d.ipfs
                   /\ c.resource_limits.cpu =
                        IF v.resource_limits = None \/ v.resource_limits[1].cpu = None
                        THEN d.resource_limits.cpu
                        ELSE v.resource_limits[1].cpu[1]
                   /\ c.db_type = IF v.db_type = None THEN d.db_type ELSE v.db_type[1]
                   /\ c.postgres = IF v.ceramic_postgres = None THEN d.postgres
                                   ELSE v.ceramic_postgres[1]
                   /\ c.enable_historical_sync =
                        IF v.enable_historical_sync = None
                        THEN d.enable_historical_sync
                        ELSE v.enable_historical_sync[1]
                   /\ v = AbsentSpec => c = d

----------------------------------------------------------------------------
(* C22: no optionality survives resolution *)

\* C22: every field of every resolved config has a concrete value: the
\* postgres db name, user name and password and the extras of the IPFS
\* variant are present, none is None.
C22_NoOptionality ==
    \A k \in 1..Len(cfg) :
        ~IsPanic(cfg[k]) =>
            \A i \in 1..Len(cfg[k].configs) :
                LET c == cfg[k].configs[i]
                IN  /\ c.postgres.db_name # None
                    /\ c.postgres.user_name # None
                    /\ c.postgres.password # None
                    /\ c.ipfs.kind = "Rust" => c.ipfs.env # None

----------------------------------------------------------------------------
(* C23: resolution and building are deterministic *)

\* C23: every resolution of the same variant list returns the same configs,
\* and every build of the resolved variant returns the same workload, in
\* whatever order the extra-env map yields its entries.
C23_Deterministic ==
    /\ \A i, j \in 1..Len(cfg) : cfg[i] = cfg[j]
    /\ \A i, j \in 1..Len(workload) : workload[i] = workload[j]

\* A variant with a Rust IPFS spec of two extra-env entries, one of them the
\* override of a synthesized variable, resolved twice and built twice.
C23_Witness ==
    /\ Len(cfg) = 2
    /\ Len(workload) = 2
    /\ ~IsPanic(workload[2])
    /\ ceramic[1].ipfs # None
    /\ ceramic[1].ipfs[1].kind = "Rust"
    /\ ceramic[1].ipfs[1].env =
         Some({[name |-> "RUST_LOG", value |-> "trace"],
               [name |-> "SOME_ENV_VAR", value |-> "SOME_ENV_VALUE"]})
    /\ Len(workload[2].ipfs_env[1]) = 11

----------------------------------------------------------------------------
(* C24: the extra env of a Rust IPFS spec overrides the synthesized env *)

\* The positions of the variable `name` in `env`.
Named(env, name) == {i \in 1..Len(env) : env[i].name = name}

\* The extra-env entries of the config built (none for a Go variant and for
\* a Rust variant without extra env).
ExtraOf(c) == IF c.ipfs.kind = "Rust" /\ c.ipfs.env # None THEN c.ipfs.env[1] ELSE {}

\* C24: in the env of the Rust IPFS container every entry (k, v) of the extra
\* env is exactly one variable, named k with value v; every synthesized
\* variable whose name is no key of the extra env is there exactly once with
\* its synthesized value; no name is there twice.
C24_EnvOverride ==
    \A b \in 1..Len(workload) :
        (~IsPanic(workload[b]) /\ workload[b].ipfs_env # None) =>
            LET c == cfg[1].configs[1]
                env == workload[b].ipfs_env[1]
                synthesized == RustIpfsConfig_container([c.ipfs EXCEPT !.env = None], <<>>)
            IN  /\ \A e \in ExtraOf(c) :
                      /\ Cardinality(Named(env, e.name)) = 1
                      /\ \A i \in Named(env, e.name) : env[i].value = Some(e.value)
                /\ \A s \in 1..Len(synthesized) :
                      (\A e \in ExtraOf(c) : e.name # synthesized[s].name) =>
                          /\ Cardinality(Named(env, synthesized[s].name)) = 1
                          /\ \A i \in Named(env, synthesized[s].name) :
                                env[i] = synthesized[s]
                /\ \A i, j \in 1..Len(env) : env[i].name = env[j].name => i = j
                /\ Len(synthesized) = 10

\* A Rust variant whose extra env overrides CERAMIC_ONE_NETWORK and adds
\* SOME_ENV_VAR has been built: 11 variables, the override among them.
C24_Witness ==
    /\ Len(workload) >= 1
    /\ ~IsPanic(workload[1])
    /\ workload[1].ipfs_env # None
    /\ ExtraOf(cfg[1].configs[1]) =
         {[name |-> "CERAMIC_ONE_NETWORK", value |-> "dev-unstable"],
          [name |-> "SOME_ENV_VAR", value |-> "SOME_ENV_VALUE"]}
    /\ Len(workload[1].ipfs_env[1]) = 11
    /\ \E i \in 1..11 :
         workload[1].ipfs_env[1][i] =
            [name |-> "CERAMIC_ONE_NETWORK", value |-> Some("dev-unstable")]

----------------------------------------------------------------------------
(* C25: the env sequences of a peer workload *)

NoNameTwice(env) == \A i, j \in 1..Len(env) : env[i].name = env[j].name => i = j
Ascending(env) == \A i \in 1..Len(env) - 1 : NameLess(env[i], env[i + 1])

\* The env sequences of a workload: ceramic container, init container and,
\* for a Rust variant, the IPFS container.
EnvsOf(w) ==
    {w.ceramic_env, w.init_env} \cup (IF w.ipfs_env = None THEN {} ELSE {w.ipfs_env[1]})

\* C25: every env sequence of a built workload has no name twice and is in
\* ascending order of name.  Only the env of the Rust IPFS container is
\* sorted (lines 487-488); the env of the ceramic container and of the init
\* container stay in the order the builder pushes their variables.
C25_AllEnvsSorted ==
    \A b \in 1..Len(workload) :
        ~IsPanic(workload[b]) =>
            \A env \in EnvsOf(workload[b]) : NoNameTwice(env) /\ Ascending(env)

----------------------------------------------------------------------------
(* C26: the default network, end to end *)

\* C26: a network without variants resolves to exactly one config, the
\* default one, and the build of its workload does not fail.
C26_DefaultEndToEnd ==
    ceramic = <<>> =>
        /\ \A k \in 1..Len(cfg) : cfg[k] = [configs |-> <<CeramicConfig_default>>]
        /\ \A b \in 1..Len(workload) : ~IsPanic(workload[b])

----------------------------------------------------------------------------
(* C27: the only failure is a postgres backend without credentials *)

\* C27: resolution and build of a variant fail exactly when the backend it
\* selects is postgres and the db name, the user name or the password is
\* missing; a variant whose backend is sqlite resolves and builds, and its
\* connection string is the sqlite one.
C27_OnlyFailure ==
    LET d == CeramicConfig_default
        backend == IF ceramic = <<>> \/ ceramic[1].db_type = None THEN d.db_type
                   ELSE ceramic[1].db_type[1]
        given == IF ceramic = <<>> \/ ceramic[1].ceramic_postgres = None THEN d.postgres
                 ELSE ceramic[1].ceramic_postgres[1]
        doomed == /\ backend = DB_TYPE_POSTGRES
                  /\ \/ given.db_name = None
                     \/ given.user_name = None
                     \/ given.password = None
    IN  /\ \A k \in 1..Len(cfg) : IsPanic(cfg[k]) => doomed
        /\ \A b \in 1..Len(workload) : IsPanic(workload[b]) <=> doomed
        /\ \A b \in 1..Len(workload) :
              backend = "sqlite" =>
                  \E i \in 1..Len(workload[b].ceramic_env) :
                      workload[b].ceramic_env[i] =
                          [name |-> "DB_CONNECTION_STRING",
                           value |-> Some("sqlite:///ceramic-data/ceramic.db")]

----------------------------------------------------------------------------
(* The names and addresses of peers (network/ceramic.rs, CeramicInfo).     *)

\* Greatest ordinal of a peer.
MaxOrdinal == 2
\* Most peers named in one behaviour.
MaxNamed == 2

\* Mutant: the address leaves out the ordinal of the peer.
ipfs_rpc_addr_nopeer(info, ns, peer) ==
    "http://" \o info.stateful_set \o "." \o info.service \o "." \o ns
        \o ".svc.cluster.local:" \o ToString(CERAMIC_SERVICE_IPFS_PORT)

\* CeramicInfo::ipfs_rpc_addr
ipfs_rpc_addr(info, ns, peer) ==
    "http://" \o info.stateful_set \o "-" \o ToString(peer) \o "." \o info.service
        \o "." \o ns \o ".svc.cluster.local:" \o ToString(CERAMIC_SERVICE_IPFS_PORT)

\* CeramicInfo::ceramic_addr
ceramic_addr(info, ns, peer) ==
    "http://" \o info.stateful_set \o "-" \o ToString(peer) \o "." \o info.service
        \o "." \o ns \o ".svc.cluster.local:" \o ToString(CERAMIC_SERVICE_API_PORT)

\* The suffixes, ordinals (an i32) and namespaces of the peers named here.
Suffixes == {"0", "1", "0-1", "0-"}
Ordinals == (0 - 1)..MaxOrdinal
Namespaces == {"keramik-a", "keramik-b"}

\* Every name and address CeramicInfo derives for the peer `peer` of the
\* variant `suffix` in the namespace `ns`.
NamesOf(suffix, peer, ns) ==
    LET info == CeramicInfo_new(suffix, peer + 1)
    IN  [suffix |-> suffix, peer |-> peer, ns |-> ns,
         stateful_set |-> info.stateful_set,
         service |-> info.service,
         ipfs_init |-> new_name(info, "ipfs-container-init"),
         pod |-> pod_name(info, peer),
         rpc |-> ipfs_rpc_addr(info, ns, peer),
         api |-> ceramic_addr(info, ns, peer)]

NameInit ==
    /\ addressed = {}
    /\ SimAtRest /\ NetAtRest /\ RpcAtRest /\ ResAtRest
    /\ BldAtRest /\ JobAtRest
    /\ SeedAtRest /\ IsoAtRest /\ RerunAtRest

\* The names of one more peer are derived.
NamePeer ==
    /\ Cardinality(addressed) < MaxNamed
    /\ \E suffix \in Suffixes, peer \in Ordinals, ns \in Namespaces :
         addressed' = addressed \cup {NamesOf(suffix, peer, ns)}

NameNext ==
    NamePeer /\ UNCHANGED <<simvars, netvars, rpcvars, resvars, bldvars, jobvars, seedvars, isovars, rerunvars>>

NameSpec == NameInit /\ [][NameNext]_vars

----------------------------------------------------------------------------
(* C28: the naming contract *)

\* C28: every object name CeramicInfo derives is <base>-<suffix>; the names
\* and addresses derived for one (suffix, ordinal, namespace) are always the
\* same; and within a namespace two peers that differ in suffix or ordinal,
\* both ordinals at least 0, differ in pod name, in API address and in RPC
\* address.
C28_NamingContract ==
    /\ \A a \in addressed :
          /\ a.stateful_set = "ceramic" \o "-" \o a.suffix
          /\ a.service = "ceramic" \o "-" \o a.suffix
          /\ a.ipfs_init = "ipfs-container-init" \o "-" \o a.suffix
    /\ \A a, b \in addressed :
          (a.suffix = b.suffix /\ a.peer = b.peer /\ a.ns = b.ns) => a = b
    /\ \A a, b \in addressed :
          (/\ a.ns = b.ns
           /\ <<a.suffix, a.peer>> # <<b.suffix, b.peer>>
           /\ a.peer >= 0 /\ b.peer >= 0)
              => a.pod # b.pod /\ a.api # b.api /\ a.rpc # b.rpc

\* Peer 1 of the variant "0" and peer 0 of the variant "0-1" of one
\* namespace have been named: ceramic-0-1 and ceramic-0-1-0.
C28_Witness ==
    \E a, b \in addressed :
        /\ a.ns = b.ns
        /\ a.suffix = "0" /\ a.peer = 1
        /\ b.suffix = "0-1" /\ b.peer = 0
        /\ a.pod = "ceramic-0-1"
        /\ b.pod = "ceramic-0-1-0"
        /\ a.rpc = "http://ceramic-0-1.ceramic-0.keramik-a.svc.cluster.local:5001"
        /\ a.api = "http://ceramic-0-1.ceramic-0.keramik-a.svc.cluster.local:7007"

----------------------------------------------------------------------------
(* The jobs of successive simulation runs (simulation/manager.rs, and the  *)
(* job names and configs of simulation/controller.rs).                     *)
(*                                                                         *)
(* A run applies the manager job, then the worker job of every peer; a     *)
(* later run of the simulation has another nonce.  `jobs` lists what was   *)
(* applied, each job with the nonce of the run it was derived under.       *)

\* JobImageConfig::from(spec): the image and pull policy of the spec, or the
\* defaults.
JobImageConfig_from(spec) ==
    [image |-> UnwrapOr(spec.image, "public.ecr.aws/r5b3e0r5/3box/keramik-runner:latest"),
     image_pull_policy |-> UnwrapOr(spec.image_pull_policy, "Always")]

\* reconcile, lines 165-174: the config of the manager job.
ManagerConfig(spec, nonce) ==
    [scenario |-> spec.scenario,
     users |-> spec.users,
     run_time |-> spec.run_time,
     nonce |-> nonce,
     job_image_config |-> JobImageConfig_from(spec),
     throttle_requests |-> spec.throttle_requests]

\* apply_n_workers, lines 329-334: the config of the worker job of peer i.
WorkerConfig(spec, nonce, i) ==
    [scenario |-> spec.scenario,
     target_peer |-> i,
     nonce |-> nonce,
     job_image_config |-> JobImageConfig_from(spec)]

\* manager_job_spec: the labels of the pod template, the image and pull
\* policy of the manager container and its env.
manager_job_spec(c) ==
    [labels |-> [name |-> "goose"],
     image |-> "keramik/runner:dev",
     image_pull_policy |-> "IfNotPresent",
     env |-> << [name |-> "RUNNER_OTLP_ENDPOINT", value |-> "http://otel:4317"],
                [name |-> "RUST_LOG", value |-> "info,keramik_runner=trace"],
                [name |-> "SIMULATE_SCENARIO", value |-> c.scenario],
                [name |-> "SIMULATE_MANAGER", value |-> "true"],
                [name |-> "SIMULATE_PEERS_PATH", value |-> "/keramik-peers/peers.json"],
                [name |-> "SIMULATE_TARGET_PEER", value |-> ToString(0)],
                [name |-> "SIMULATE_NONCE", value |-> ToString(c.nonce)],
                [name |-> "SIMULATE_USERS", value |-> ToString(c.users)],
                [name |-> "SIMULATE_RUN_TIME", value |-> ToString(c.run_time) \o "m"],
                [name |-> "DID_KEY",
                 value |-> "did:key:z6Mkqn5jbycThHcBtakJZ8fHBQ2oVRQhXQEdQk5ZK2NDtNZA"],
                [name |-> "DID_PRIVATE_KEY",
                 value |-> "86dce513cf0a37d4acd6d2c2e00fe4b95e0e655ca51e1a890808f5fa6f4fe65a"] >>]

\* The simulation specs run here.
SimulationSpecs ==
    [scenario : {"ceramic-simple", "ipfs-rpc"},
     users : {10, 100},
     run_time : {1, 10},
     image : {None, Some("image:dev")},
     image_pull_policy : {None, Some("Never")},
     throttle_requests : {None, Some(100)}]

\* Most passes that apply the jobs of the simulation.
MaxPasses == 2

\* The pass at work: which one it is, the simulation and its registry size,
\* the nonce of the pass and the number of jobs it has applied.
JobInit ==
    /\ simrun \in [spec : SimulationSpecs, nonce : 1..NumNonces, peers : 0..MaxPeers,
                   pass : {1}, applied : {0}]
    /\ jobs = <<>>
    /\ SimAtRest /\ NetAtRest /\ RpcAtRest /\ ResAtRest
    /\ BldAtRest /\ NameAtRest
    /\ SeedAtRest /\ IsoAtRest /\ RerunAtRest

\* apply_manager: the manager job of the run.
JobApplyManager ==
    /\ simrun.applied = 0
    /\ jobs' = Append(jobs,
                      [name |-> MANAGER_JOB_NAME, nonce |-> simrun.nonce,
                       spec |-> manager_job_spec(ManagerConfig(simrun.spec, simrun.nonce))])
    /\ simrun' = [simrun EXCEPT !.applied = 1]

\* apply_n_workers: the worker job of the next peer.
JobApplyWorker ==
    /\ simrun.applied \in 1..simrun.peers
    /\ LET i == simrun.applied - 1
       IN  jobs' = Append(jobs,
                          [name |-> WorkerName(i), nonce |-> simrun.nonce,
                           config |-> WorkerConfig(simrun.spec, simrun.nonce, i)])
    /\ simrun' = [simrun EXCEPT !.applied = @ + 1]

\* A pass that finds no status, whenever it comes: its nonce is
\* thread_rng().gen(), any value, that of an earlier pass included.
JobNewRun ==
    /\ simrun.pass < MaxPasses
    /\ \E fresh \in 1..NumNonces :
         simrun' = [simrun EXCEPT !.nonce = fresh, !.pass = @ + 1, !.applied = 0]
    /\ UNCHANGED jobs

JobNext ==
    \/ JobApplyManager /\ UNCHANGED <<simvars, netvars, rpcvars, resvars, bldvars, namevars, seedvars, isovars, rerunvars>>
    \/ JobApplyWorker /\ UNCHANGED <<simvars, netvars, rpcvars, resvars, bldvars, namevars, seedvars, isovars, rerunvars>>
    \/ JobNewRun /\ UNCHANGED <<simvars, netvars, rpcvars, resvars, bldvars, namevars, seedvars, isovars, rerunvars>>

JobSpec == JobInit /\ [][JobNext]_vars

\* The jobs applied that are manager jobs (they carry a job spec).
IsManagerJob(j) == "spec" \in DOMAIN j

\* The values of the variables named `name` in the env of a manager job.
EnvValues(j, name) == {j.spec.env[i].value : i \in {k \in 1..Len(j.spec.env) : j.spec.env[k].name = name}}

----------------------------------------------------------------------------
(* C29: the nonce and the job objects of successive runs *)

\* C29: two job objects derived under different nonces differ in object
\* name or, for two manager jobs, in their labels.  The code gives the jobs
\* of every run the same names (MANAGER_JOB_NAME, WORKER_JOB_NAME-i) and the
\* manager job the one label name=goose; the nonce is only what the job is
\* told (SIMULATE_NONCE, the nonce of the worker config).
C29_NonceDisambiguates ==
    \A a, b \in 1..Len(jobs) :
        jobs[a].nonce # jobs[b].nonce =>
            \/ jobs[a].name # jobs[b].name
            \/ /\ IsManagerJob(jobs[a]) /\ IsManagerJob(jobs[b])
               /\ jobs[a].spec.labels # jobs[b].spec.labels

----------------------------------------------------------------------------
(* C30: the manager job reflects the simulation spec and the nonce *)

\* C30: the manager job of a run carries the scenario, the user count, the
\* run time ('<n>m') and the nonce of the run; its image and pull policy are
\* the spec's when the spec gives them and the defaults otherwise; it has a
\* throttle variable exactly when the spec sets throttle_requests, with that
\* value.
C30_ManagerJobReflectsSpec ==
    \A a \in 1..Len(jobs) :
        IsManagerJob(jobs[a]) =>
            LET j == jobs[a]
                spec == simrun.spec
            IN  /\ EnvValues(j, "SIMULATE_SCENARIO") = {spec.scenario}
                /\ EnvValues(j, "SIMULATE_USERS") = {ToString(spec.users)}
                /\ EnvValues(j, "SIMULATE_RUN_TIME") = {ToString(spec.run_time) \o "m"}
                /\ EnvValues(j, "SIMULATE_NONCE") = {ToString(j.nonce)}
                /\ j.spec.image = JobImageConfig_from(spec).image
                /\ j.spec.image_pull_policy = JobImageConfig_from(spec).image_pull_policy
                /\ EnvValues(j, "SIMULATE_THROTTLE_REQUESTS") =
                      IF spec.throttle_requests = None THEN {}
                      ELSE {ToString(spec.throttle_requests[1])}

----------------------------------------------------------------------------
(* C31 *)

\* ApiServerVerifier::run: the requests the test stub of the simulation loop
\* serves, in order, for a registry of n Ceramic peers and the nonce of the
\* persisted status.
ApiServerVerifier_run(n, nonce) ==
    << Call("get", "ConfigMap", PEERS_CONFIG_MAP_NAME, None, None),
       Apply("Service", JAEGER_SERVICE_NAME),
       Apply("StatefulSet", "jaeger"),
       Apply("ConfigMap", PROM_CONFIG_MAP_NAME),
       Apply("StatefulSet", "prometheus"),
       Apply("ServiceAccount", OTEL_ACCOUNT),
       Apply("ClusterRole", OTEL_CR),
       Apply("ClusterRoleBinding", OTEL_CR_BINDING),
       Apply("ConfigMap", OTEL_CONFIG_MAP_NAME),
       Apply("Service", OTEL_SERVICE_NAME),
       Apply("StatefulSet", "opentelemetry"),
       GetStatus("StatefulSet", "jaeger"),
       GetStatus("StatefulSet", "prometheus"),
       GetStatus("StatefulSet", "opentelemetry"),
       Apply("Service", MANAGER_SERVICE_NAME),
       Call("apply", "Job", MANAGER_JOB_NAME, Some(nonce), None),
       GetStatus("Job", MANAGER_JOB_NAME) >>
    \o [i \in 1..n |->
          Call("apply", "Job", ExpectedWorkerNames[i], Some(nonce), Some(i - 1))]
    \o << Call("patch_status", "Simulation", "test", Some(nonce), None) >>

\* The pass follows a completed one, so the status it loaded was persisted.
StatusWasPersisted == prev.complete /\ IsSome(status)

\* C31: a pass of a simulation with a persisted status that found every
\* dependency ready and ran to its end has issued exactly the calls the test
\* stub of the loop expects, in that order and no other: the registry read, the
\* ten observability applies, the three status reads, the manager service and
\* job, the manager status read, the worker jobs 0..n-1 and the status patch.
C31_ExactCallSequence ==
    (StatusWasPersisted /\ Completed /\ ManagerReady) =>
        calls = ApiServerVerifier_run(local.num_peers, status[1])

----------------------------------------------------------------------------
(* C34 *)

\* The registry read of the pass failed: the store call itself failed (the
\* config map is missing), or the map came back without data, without the peers
\* entry or with text that is no peer list.
RegistryCallFailed == Len(calls) = 1 /\ calls[1].op = "get" /\ ~calls[1].ok
RegistryIllFormed == local.map # <<>> /\ ~RegistryWellFormed
RegistryReadFailed == RegistryCallFailed \/ RegistryIllFormed

\* C34: once the registry read of a pass failed, in any of the four ways, the
\* pass has ended with an error and the 5 second requeue of on_error is
\* scheduled (the loop goes on), and the pass has applied nothing.
C34_RegistryFailureRequeues ==
    RegistryReadFailed =>
        /\ PassEnded
        /\ result.ret = "Err"
        /\ ScheduledRequeue(5)
        /\ Len(AppliesIssued) = 0

----------------------------------------------------------------------------
(* C36 *)

\* A workload read that came back without a status or without a ready count.
ReplicasAbsent(o) ==
    /\ o # <<>>
    /\ \/ o[1].status = <<>>
       \/ o[1].status[1].ready_replicas = <<>>

\* The manager job read that came back without a status or without a ready count.
JobReadyAbsent(o) ==
    /\ o # <<>>
    /\ \/ o[1].status = <<>>
       \/ o[1].status[1].ready = <<>>

GateStopped == PassEnded /\ result = Ok(Requeue(10))

\* C36: a readiness read that comes back without a status or without a ready
\* count counts as not ready and never makes the pass fail or crash: for the
\* tracing, metrics and telemetry workloads and for the queue workload the pass
\* stops at the gate, Ok with the 10 second requeue and nothing further applied;
\* for the manager job no worker is applied and the pass does not panic.
C36_AbsentMeansNotReady ==
    /\ ( /\ MonitoringWasRead
         /\ \/ ReplicasAbsent(local.jaeger)
            \/ ReplicasAbsent(local.prom)
            \/ ReplicasAbsent(local.otel) )
           => (GateStopped /\ Len(QueueCalls) = 0)
    /\ ReplicasAbsent(local.redis) => (GateStopped /\ Len(ManagerCalls) = 0)
    /\ JobReadyAbsent(local.manager_job) =>
           /\ Len(WorkerCalls) = 0
           /\ result.ret # "panic"

----------------------------------------------------------------------------
(* C35 *)

\* Every manager job, worker job and status patch call issued so far carries
\* the nonce n, whether the call succeeded or not.
AllCarry(cs, n) == \A i \in DOMAIN cs : IsSome(cs[i].nonce) => cs[i].nonce = Some(n)

\* C35: while the simulation has a persisted status with nonce N, every step of
\* a pass leaves the persisted nonce N in place, and every manager job apply,
\* worker job apply and status patch the pass has issued carries N.
C35_PersistedNonceKept ==
    [][IsSome(status) => (status' = status /\ AllCarry(calls', status[1]))]_vars

\* A completed pass over a status persisted by the pass before it: the manager
\* job, two worker jobs and the patch carry the persisted nonce.
C35_Witness ==
    /\ StatusWasPersisted
    /\ Completed
    /\ Len(WorkerCalls) = 2
    /\ Len(ManagerCalls) = 2
    /\ status = Some(2)
    /\ AllCarry(calls, 2)
    /\ AllCarry(prev.calls, 2)

----------------------------------------------------------------------------
(* C37 *)

\* The names of the worker jobs the calls cs applied.
WorkersApplied(cs) ==
    {cs[i].name : i \in {j \in DOMAIN cs : IsWorkerApply(cs[j]) /\ cs[j].ok}}

\* The job objects left in the store by the calls cs, issued in order on a store
\* that held the jobs `before`: an apply adds its object, a delete removes it.
RECURSIVE JobsLeft(_, _)
JobsLeft(before, cs) ==
    IF cs = <<>> THEN before
    ELSE LET c == Head(cs)
             after == IF ~c.ok \/ c.kind # "Job" THEN before
                      ELSE IF c.op = "apply" THEN before \cup {c.name}
                      ELSE IF c.op = "delete" THEN before \ {c.name}
                      ELSE before
         IN  JobsLeft(after, Tail(cs))

\* C37: a pass issues no delete: its calls are reads, applies and at most one
\* status patch; so the worker jobs the previous completed pass applied are all
\* still in the store after the calls of this pass, also when this pass counted
\* fewer peers.
C37_NeverDeletes ==
    /\ \A i \in DOMAIN calls :
           calls[i].op \in {"get", "get_status", "apply", "patch_status"}
    /\ Len(StatusPatches) <= 1
    /\ prev.complete =>
           WorkersApplied(prev.calls) \subseteq JobsLeft(WorkersApplied(prev.calls), calls)

\* The peer count dropped from 3 to 1 between two completed passes: worker 0 is
\* applied again, workers 1 and 2 of the earlier pass are still there, next to
\* the manager job.
C37_Witness ==
    /\ prev.complete
    /\ prev.num_peers = 3
    /\ Cardinality(WorkersApplied(prev.calls)) = 3
    /\ Completed
    /\ ManagerReady
    /\ local.num_peers = 1
    /\ WorkersApplied(calls) = {"simulate-worker-0"}
    /\ JobsLeft(WorkersApplied(prev.calls), calls)
           = {"simulate-manager",
              "simulate-worker-0", "simulate-worker-1", "simulate-worker-2"}

----------------------------------------------------------------------------
(* C32: the worker jobs of a pass against its manager job *)

\* worker_job_spec: the image and pull policy of the worker container and the
\* variables of its env that the config decides.
worker_job_spec(c) ==
    [image |-> c.job_image_config.image,
     image_pull_policy |-> c.job_image_config.image_pull_policy,
     env |-> << [name |-> "SIMULATE_SCENARIO", value |-> c.scenario],
                [name |-> "SIMULATE_TARGET_PEER", value |-> ToString(c.target_peer)],
                [name |-> "SIMULATE_NONCE", value |-> ToString(c.nonce)] >>]

\* The worker job as applied: the job object of its config.
WorkerJobOf(j) == [name |-> j.name, nonce |-> j.nonce, spec |-> worker_job_spec(j.config)]

\* C32: every worker job applied in a pass carries the scenario, the nonce, the
\* image and the pull policy that the manager job applied in that pass carries.
C32_WorkersMatchManager ==
    \A a, b \in 1..Len(jobs) :
        (/\ IsManagerJob(jobs[a])
         /\ ~IsManagerJob(jobs[b])
         /\ jobs[a].nonce = jobs[b].nonce) =>
            LET m == jobs[a]
                w == WorkerJobOf(jobs[b])
            IN  /\ EnvValues(w, "SIMULATE_SCENARIO") = EnvValues(m, "SIMULATE_SCENARIO")
                /\ EnvValues(w, "SIMULATE_NONCE") = EnvValues(m, "SIMULATE_NONCE")
                /\ w.spec.image = m.spec.image
                /\ w.spec.image_pull_policy = m.spec.image_pull_policy

----------------------------------------------------------------------------
(* Two passes over the same status-less simulation (reconcile, lines       *)
(* 132-146).                                                               *)
(*                                                                         *)
(* Each pass runs in a context of its own, into which a random source was  *)
(* injected (Context<_, impl RngCore, _>); `rng` is that source: its seed  *)
(* and the number of values drawn from it.  The store reports every        *)
(* workload ready; the awaited calls of the two passes interleave in any   *)
(* order, and a call that fails ends its pass.                             *)

\* Number of seeds a random source can be built from.
NumSeeds == 2

Seeds == 1..NumSeeds
Twins == {"a", "b"}

\* reconcile, lines 148-208, in a store where every call succeeds and every
\* workload and the manager job are ready: the calls of the pass for n peers.
FullPass(n, nonce) ==
    << Call("get", "ConfigMap", PEERS_CONFIG_MAP_NAME, None, None) >>
    \o JaegerApplies \o PrometheusApplies \o OpentelemetryApplies
    \o << GetStatus("StatefulSet", "jaeger"),
          GetStatus("StatefulSet", "prometheus"),
          GetStatus("StatefulSet", "opentelemetry") >>
    \o RedisApplies
    \o << GetStatus("StatefulSet", "redis") >>
    \o ManagerApplies(nonce)
    \o << GetStatus("Job", MANAGER_JOB_NAME) >>
    \o [i \in 1..n |-> WorkerJob(i - 1, nonce)]
    \o << StatusPatch(nonce) >>

\* Both passes read the same registry.
SeedInit ==
    /\ rng \in [Twins -> [seed : Seeds, drawn : {0}]]
    /\ \E n \in 0..MaxPeers :
         twins = [t \in Twins |-> [pc |-> "idle", peers |-> n, nonce |-> 0, calls |-> <<>>]]
    /\ SimAtRest /\ NetAtRest /\ RpcAtRest /\ ResAtRest
    /\ BldAtRest /\ NameAtRest /\ JobAtRest /\ IsoAtRest /\ RerunAtRest

\* reconcile, lines 139-146, the simulation having no status: the nonce is
\* thread_rng().gen(), a value of the generator of the thread; the source of
\* the context is not drawn from.
SeedLoadStatus(t) ==
    /\ twins[t].pc = "idle"
    /\ \E fresh \in Nonces :
         twins' = [twins EXCEPT ![t].pc = "loaded",
                                ![t].nonce = LoadStatus(None, fresh)]
    /\ UNCHANGED rng

\* The next awaited call of the pass: it fails and the pass ends, or it is
\* served; the pass is over after the status patch.
SeedRunPass(t) ==
    /\ twins[t].pc = "loaded"
    /\ LET reqs == FullPass(twins[t].peers, twins[t].nonce)
           k == Len(twins[t].calls)
       IN  \/ twins' = [twins EXCEPT ![t].pc = "done",
                                     ![t].calls = Append(@, Failed(reqs[k + 1]))]
           \/ twins' = [twins EXCEPT ![t].pc = IF k + 1 = Len(reqs) THEN "done" ELSE "loaded",
                                     ![t].calls = Append(@, reqs[k + 1])]
    /\ UNCHANGED rng

SeedNext ==
    \/ \E t \in Twins : SeedLoadStatus(t) /\ UNCHANGED <<simvars, netvars, rpcvars, resvars, bldvars, namevars, jobvars, isovars, rerunvars>>
    \/ \E t \in Twins : SeedRunPass(t) /\ UNCHANGED <<simvars, netvars, rpcvars, resvars, bldvars, namevars, jobvars, isovars, rerunvars>>

SeedSpec == SeedInit /\ [][SeedNext]_vars

----------------------------------------------------------------------------
(* C33 *)

\* The pass is over and the store served every call of it.
RanToEnd(t) ==
    /\ twins[t].pc = "done"
    /\ \A k \in 1..Len(twins[t].calls) : twins[t].calls[k].ok

\* C33: two passes over the same status-less simulation and the same store
\* state, whose contexts were given random sources of the same seed, have
\* generated the same nonce and issued the same store calls.
C33_SeededNonce ==
    (/\ RanToEnd("a") /\ RanToEnd("b")
     /\ rng["a"].seed = rng["b"].seed
     /\ twins["a"].peers = twins["b"].peers) =>
        /\ twins["a"].nonce = twins["b"].nonce
        /\ twins["a"].calls = twins["b"].calls

----------------------------------------------------------------------------
(* Two simulations in two namespaces, reconciled concurrently over one     *)
(* store (reconcile and apply_opentelemetry).                              *)
(*                                                                         *)
(* Each instance runs one pass in which every call succeeds and every      *)
(* workload is ready; the awaited calls of the two passes interleave in    *)
(* any order.  An object of the store is identified by its scope (the      *)
(* namespace, or the cluster for cluster-wide kinds), kind and name; an    *)
(* apply replaces its content.                                             *)

SimNamespaces == {"sim-a", "sim-b"}

\* The scope a request for an object of this kind is sent to: the helpers for
\* ClusterRole and ClusterRoleBinding address the cluster, all others the
\* namespace of the simulation.
ClusterWide == "cluster"
ScopeOf(ns, kind) ==
    IF kind \in {"ClusterRole", "ClusterRoleBinding"} THEN ClusterWide ELSE ns

ObjectKey(ns, c) == [scope |-> ScopeOf(ns, c.kind), kind |-> c.kind, name |-> c.name]

\* What an apply of the pass of the simulation in `ns` writes: every object is
\* owned by the simulation (controller_owner_ref); the cluster role binding is
\* built by opentelemetry::cluster_role_binding(ns) and names the account of
\* that namespace; a job carries its nonce and target peer.
ObjectContent(ns, c) ==
    [owner |-> ns,
     subject_ns |-> IF c.kind = "ClusterRoleBinding" THEN Some(ns) ELSE None,
     nonce |-> c.nonce, target_peer |-> c.target_peer]

\* The store after the call c of the instance in ns: an apply writes its
\* object, every other call leaves the objects modelled here as they are.
ClusterAfter(st, ns, c) ==
    IF c.op = "apply"
    THEN [k \in DOMAIN st \cup {ObjectKey(ns, c)} |->
            IF k = ObjectKey(ns, c) THEN ObjectContent(ns, c) ELSE st[k]]
    ELSE st

\* The calls of the pass of an instance.
IsoCalls(ns) == FullPass(inst[ns].peers, inst[ns].nonce)

IsoInit ==
    /\ cluster = <<>>
    /\ inst \in [SimNamespaces -> [k : {0}, peers : 0..MaxPeers, nonce : Nonces]]
    /\ SimAtRest /\ NetAtRest /\ RpcAtRest /\ ResAtRest
    /\ BldAtRest /\ NameAtRest /\ JobAtRest /\ SeedAtRest /\ RerunAtRest

\* The next awaited call of the pass of the instance in ns.
IsoCall(ns) ==
    /\ inst[ns].k < Len(IsoCalls(ns))
    /\ cluster' = ClusterAfter(cluster, ns, IsoCalls(ns)[inst[ns].k + 1])
    /\ inst' = [inst EXCEPT ![ns].k = @ + 1]

IsoNext ==
    \E ns \in SimNamespaces :
        IsoCall(ns) /\ UNCHANGED <<simvars, netvars, rpcvars, resvars, bldvars, namevars, jobvars, seedvars, rerunvars>>

IsoSpec == IsoInit /\ [][IsoNext]_vars

\* The objects the instance in ns has applied so far.
AppliedBy(ns) ==
    {ObjectKey(ns, IsoCalls(ns)[j]) :
        j \in {i \in 1..inst[ns].k : IsoCalls(ns)[i].op = "apply"}}

\* The content the instance in ns last gave the object key.
LastWritten(ns, key) ==
    LET js == {i \in 1..inst[ns].k :
                 IsoCalls(ns)[i].op = "apply" /\ ObjectKey(ns, IsoCalls(ns)[i]) = key}
        last == CHOOSE i \in js : \A j \in js : j <= i
    IN  ObjectContent(ns, IsoCalls(ns)[last])

IsoPassEnded(ns) == inst[ns].k = Len(IsoCalls(ns))

----------------------------------------------------------------------------
(* C39 *)

\* C39: the passes of two simulations in different namespaces never apply the
\* same object of the store, and once both passes have ended every object an
\* instance applied holds the content that instance gave it, whatever the
\* interleaving: the account, role and role binding of the telemetry collector
\* included.
C39_Isolation ==
    /\ AppliedBy("sim-a") \cap AppliedBy("sim-b") = {}
    /\ (IsoPassEnded("sim-a") /\ IsoPassEnded("sim-b")) =>
           \A ns \in SimNamespaces :
               \A key \in AppliedBy(ns) : cluster[key] = LastWritten(ns, key)

----------------------------------------------------------------------------
(* The simulation loop with its scheduling: an awaited call of a running   *)
(* pass returns, and a scheduled requeue triggers the next pass.           *)

LiveSpec == Init /\ [][Next]_vars /\ WF_vars(Next)

----------------------------------------------------------------------------
(* C38 *)

\* What the pass has met so far is a healthy store: its last call succeeded,
\* the registry it read is a well-formed peer list, and every workload and the
\* manager job it read reported ready > 0.
Healthy ==
    /\ Len(calls) > 0 => calls[Len(calls)].ok
    /\ local.map # <<>> => RegistryWellFormed
    /\ local.jaeger # <<>> => ReportsReadyReplicas(local.jaeger[1])
    /\ local.prom # <<>> => ReportsReadyReplicas(local.prom[1])
    /\ local.otel # <<>> => ReportsReadyReplicas(local.otel[1])
    /\ local.redis # <<>> => ReportsReadyReplicas(local.redis[1])
    /\ local.manager_job # <<>> => JobReportsReady(local.manager_job[1])

\* A pass has applied the worker job of every Ceramic peer of the registry and
\* patched the status.
FannedOutAndPatched ==
    /\ Completed
    /\ RegistryWellFormed
    /\ local.num_peers = Cardinality(CeramicEntries(RegistryRead))
    /\ Len(WorkerCalls) = local.num_peers
    /\ \A k \in DOMAIN WorkerCalls : WorkerCalls[k].ok

NextPassStarted == pc = At("get_num_peers", 1)

\* C38: if from some point on every step of the loop meets a healthy store
\* (every call succeeds, the registry is a peer list, everything is ready),
\* then again and again a pass applies all worker jobs and patches the status;
\* and a pass stopped at a gate is always followed by another pass.
C38_Progress ==
    /\ (<>[][Healthy']_vars) => []<>FannedOutAndPatched
    /\ GateStopped ~> NextPassStarted

====
